---------------------------- MODULE Spec2Model ----------------------------
(* A state-machine model of the mlife-parser de-identification core:       *)
(*   - the model asset lifecycle manager  (deidentifier_engine/nlp_engine) *)
(*   - the lazily initialised recognizer singleton          (nlp_engine)   *)
(*   - the record anonymization pipeline   (deidentifier_engine/anonymizer)*)
EXTENDS Integers, Sequences, FiniteSets, TLC

VARIABLES
    (* ---- filesystem and network, shared by every call ---- *)
    dirExists,        \* the spacy_models directory exists
    modelFiles,       \* archive members present below the model directory
    tmpFiles,         \* temporary archive files on disk (named by call number)
    (* ---- the caller of the lifecycle manager ---- *)
    pc,               \* position of the running call, "idle" between calls
    entry,            \* API function entered by the caller
    auto_download,    \* argument of ensure_model_available
    hasCb,            \* progress_callback is not None
    calls,            \* number of calls started
    ret,              \* outcome of the last call
    (* ---- locals of download_model_with_progress ---- *)
    tmp_path,         \* 0 is None, otherwise the name of this call's temp file
    tmpOpen,          \* out_file holds tmp_path open for writing
    download_result,  \* dict shared with the try_connect worker
    workerAlive,      \* connect_thread.is_alive() at the join deadline
    total_size,
    downloaded,
    nextMember,       \* next archive member tar.extractall will write
    (* ---- observations of the running call ---- *)
    probe,            \* result of _check_connectivity: "none", "ok", "failed"
    httpRequested,    \* try_connect was started in this call
    streamRead,       \* response.read was called in this call
    netUsed,          \* this call issued a network operation (probe, request, read)
    tmpCreated,       \* this call created a temporary file
    extractStarted,   \* tarfile.open was called in this call
    stages,           \* names of the progress reports made in this call
    fractions,        \* the last two fractions passed to progress_callback
    atCall,           \* snapshot taken when the call was entered
    (* ---- the recognizer singleton: globals of nlp_engine.py ---- *)
    _initialized,     \* the module flag _initialized
    _analyzer,        \* 0 is None, otherwise the identity of the instance
    _anonymizer,      \* 0 is None, otherwise the identity of the instance
    built,            \* times the engine construction of _initialize_engines ran
    (* ---- threads that use the recognizer ---- *)
    tpc,              \* position of each thread
    tfn,              \* getter each thread is in
    tcalls,           \* getter calls each thread has started
    handed,           \* << getter, instance >> pairs returned to callers
    raisedTo,         \* threads whose last getter call raised
    (* ---- anonymize_dataframe: arguments, locals, observations ---- *)
    frames,           \* the data frames on the heap, frames[r] are the rows of r
    columns,          \* column names of the caller's data frame
    blacklist,
    fuzzy_matching,
    fuzzy_threshold,
    dfCb,             \* progress_callback is not None
    df_pc,            \* position in anonymize_dataframe
    df_anon,          \* 0 is unset, otherwise a reference into frames
    clean_blacklist,
    freetext_indices,
    rows_to_process,
    pos,              \* position of the for loop in rows_to_process
    processed,
    df_ret,           \* outcome of the call
    reports,          \* fractions passed to progress_callback, in order
    recognized,       \* rows handed to the recognizer (anonymize_content)
    matched,          \* rows whose text was handed to blacklist_replace
    nlpErrors,        \* rows whose recognition raised ("NLP-Fehler bei Zeile")
    (* ---- blacklist_replace called on its own ---- *)
    mpc,              \* "unused", "start", "applied", "reapplied"
    call,             \* the arguments: txt, terms, fuzzy_matching, fuzzy_threshold
    replaced,         \* blacklist_replace(txt, ...)
    replaced_again,     \* blacklist_replace(replaced, ...) with the same arguments
    replaced_permuted,  \* the results for every order of the term list
    (* ---- AnonymizeTab of ui/tabs/anonymize.py and its AppState ---- *)
    _is_downloading,
    _is_anonymizing,
    action_disabled,  \* self._action_button.disabled
    app_state,        \* the fields df and is_anonymized of AppState
    hpc,              \* position of the handler thread of each click
    wkind,            \* worker thread started by each click's handler
    wpc               \* position of that worker thread

dlVars == << dirExists, modelFiles, tmpFiles, netUsed, pc, entry, auto_download,
             hasCb, calls, ret, tmp_path, tmpOpen, download_result, workerAlive,
             total_size, downloaded, nextMember, probe, httpRequested,
             streamRead, tmpCreated, extractStarted, stages, fractions, atCall >>

engVars == << _initialized, _analyzer, _anonymizer, built >>

thrVars == << tpc, tfn, tcalls, handed, raisedTo >>

dfVars == << frames, columns, blacklist, fuzzy_matching, fuzzy_threshold, dfCb,
             df_pc, df_anon, clean_blacklist, freetext_indices,
             rows_to_process, pos, processed, df_ret, reports, recognized,
             matched, nlpErrors >>

matchVars == << mpc, call, replaced, replaced_again, replaced_permuted >>

uiVars == << _is_downloading, _is_anonymizing, action_disabled, app_state,
            hpc, wkind, wpc >>

vars == << dlVars, engVars, thrVars, dfVars, matchVars, uiVars >>

-----------------------------------------------------------------------------
(* Bounds of the model *)

MaxCalls == 2        \* calls of the lifecycle API in one behaviour
SmallTotal == 3      \* declared sizes 0..SmallTotal are all explored
LargeTotal == 48     \* one declared size that is large against a chunk
BlockSize == 2       \* stand-in for block_size: a read returns 1..BlockSize units
MaxUnknown == 3      \* the count of a stream of undeclared size is kept modulo this
MaxRows == 2         \* rows of the exhaustively enumerated datasets
MaxHundreds == 1     \* long datasets have up to MaxHundreds * 100 + MaxExtra rows
MaxExtra == 1
NumThreads == 2      \* threads that use the recognizer concurrently
MaxGets == 1         \* getter calls made by each thread
NumClicks == 2       \* clicks on the action button in one behaviour
NumMembers == 3      \* members of the model archive, extracted in order
MarkerMember == 2    \* position of the marker file meta.json among them

-----------------------------------------------------------------------------
(* Helpers *)

Min(a, b) == IF a <= b THEN a ELSE b
Max(a, b) == IF a >= b THEN a ELSE b

(* A progress fraction as an exact rational << numerator, denominator >>. *)
Frac(n, d) == << n, d >>
FracLeq(a, b) == a[1] * b[2] <= b[1] * a[2]

(* The last two fractions of the call, enough to see every adjacent pair. *)
Report(fs, f) == IF Len(fs) < 2 THEN Append(fs, f) ELSE << fs[2], f >>

NoRet == [status |-> "none", ok |-> FALSE, msg |-> "none"]
Returned(ok, msg) == [status |-> "returned", ok |-> ok, msg |-> msg]
Raised(msg) == [status |-> "raised", ok |-> FALSE, msg |-> msg]

TotalSizes == (0 .. SmallTotal) \cup {LargeTotal}

-----------------------------------------------------------------------------
(* Text: a Python str is a sequence of one-character strings. *)

Upper == {"A", "M", "H", "N", "O", "Y"}

(* str.lower() on one character *)
LowerChar(c) ==
    CASE c = "A" -> "a"
      [] c = "M" -> "m"
      [] c = "H" -> "h"
      [] c = "N" -> "n"
      [] c = "O" -> "o"
      [] c = "Y" -> "y"
      [] OTHER -> c

(* str.lower() *)
Lower(txt) == [i \in 1 .. Len(txt) |-> LowerChar(txt[i])]

(* \s of the delimiter pattern; str.strip() removes the same characters *)
IsSpace(c) == c \in {" ", "\t", "\n"}

(* [,;.!?:\-\(\)\[\]\"\'] of the delimiter pattern *)
IsPunct(c) ==
    c \in {",", ";", ".", "!", "?", ":", "-", "(", ")", "[", "]", "\"", "'"}

RECURSIVE LStrip(_)
LStrip(txt) ==
    IF txt # << >> /\ IsSpace(Head(txt)) THEN LStrip(Tail(txt)) ELSE txt

RECURSIVE RStrip(_)
RStrip(txt) ==
    IF txt # << >> /\ IsSpace(txt[Len(txt)])
    THEN RStrip(SubSeq(txt, 1, Len(txt) - 1))
    ELSE txt

(* str.strip() *)
Strip(txt) == RStrip(LStrip(txt))

(* [f(t) for t in seq if keep(t)] for the cleaning of a term list:          *)
(* [t.strip() for t in terms if t and t.strip()]                             *)
RECURSIVE CleanTerms(_)
CleanTerms(terms) ==
    IF terms = << >> THEN << >>
    ELSE IF Strip(Head(terms)) # << >>
         THEN << Strip(Head(terms)) >> \o CleanTerms(Tail(terms))
         ELSE CleanTerms(Tail(terms))

(* "".join(parts) *)
RECURSIVE Join(_)
Join(parts) ==
    IF parts = << >> THEN << >> ELSE Head(parts) \o Join(Tail(parts))

(* The placeholder token "<ANONYM>". *)
ANONYM == << "<", "A", "N", "O", "N", "Y", "M", ">" >>

-----------------------------------------------------------------------------
(* Fuzzy blacklist matcher: blacklist_replace of anonymizer.py *)

(* re.compile(re.escape(term), re.IGNORECASE) matches at the start of txt *)
MatchesAt(txt, term) ==
    /\ Len(term) <= Len(txt)
    /\ Lower(SubSeq(txt, 1, Len(term))) = Lower(term)

(* pattern.sub("<ANONYM>", txt): leftmost non-overlapping matches, in order *)
RECURSIVE Sub(_, _)
Sub(txt, term) ==
    IF txt = << >> THEN << >>
    ELSE IF MatchesAt(txt, term)
         THEN ANONYM \o Sub(SubSeq(txt, Len(term) + 1, Len(txt)), term)
         ELSE << Head(txt) >> \o Sub(Tail(txt), term)

(* for term in clean_terms: txt = pattern.sub("<ANONYM>", txt) *)
RECURSIVE ExactReplace(_, _)
ExactReplace(txt, clean_terms) ==
    IF clean_terms = << >> THEN txt
    ELSE ExactReplace(Sub(txt, Head(clean_terms)), Tail(clean_terms))

(* Length of the run of characters of one delimiter class at the start. *)
RECURSIVE SpaceRun(_)
SpaceRun(txt) ==
    IF txt # << >> /\ IsSpace(Head(txt)) THEN 1 + SpaceRun(Tail(txt)) ELSE 0

RECURSIVE PunctRun(_)
PunctRun(txt) ==
    IF txt # << >> /\ IsPunct(Head(txt)) THEN 1 + PunctRun(Tail(txt)) ELSE 0

(* \s+ is tried before the punctuation class at every position *)
DelimRun(txt) ==
    IF SpaceRun(txt) > 0 THEN SpaceRun(txt) ELSE PunctRun(txt)

(* re.split(r'(\s+|[,;.!?:\-\(\)\[\]\"\']+)', txt): the pieces between the  *)
(* delimiters and the delimiters themselves, in order; cur is the piece     *)
(* collected so far.                                                         *)
RECURSIVE SplitFrom(_, _)
SplitFrom(txt, cur) ==
    IF txt = << >> THEN << cur >>
    ELSE IF DelimRun(txt) > 0
         THEN << cur, SubSeq(txt, 1, DelimRun(txt)) >>
              \o SplitFrom(SubSeq(txt, DelimRun(txt) + 1, Len(txt)), << >>)
         ELSE SplitFrom(Tail(txt), Append(cur, Head(txt)))

(* re.split without the capture group: the delimiters are dropped. *)
SplitNoDelims(txt) ==
    LET all == SplitFrom(txt, << >>)
    IN  [i \in 1 .. (Len(all) + 1) \div 2 |-> all[2 * i - 1]]

Split(txt) == SplitFrom(txt, << >>)

(* not token or not token.strip() or re.match(r'^[\s,;...]+$', token) *)
IsDelimiter(token) ==
    \/ token = << >>
    \/ Strip(token) = << >>
    \/ \A i \in 1 .. Len(token) : IsSpace(token[i]) \/ IsPunct(token[i])

(* Length of a longest common subsequence. *)
RECURSIVE LCS(_, _)
LCS(a, b) ==
    IF a = << >> \/ b = << >> THEN 0
    ELSE IF Head(a) = Head(b) THEN 1 + LCS(Tail(a), Tail(b))
    ELSE Max(LCS(Tail(a), b), LCS(a, Tail(b)))

(* fuzz.ratio(a, b) >= threshold: the ratio is the normalized Indel         *)
(* similarity 100 * 2 * LCS / (len(a) + len(b)), 100 for two empty strings. *)
RatioAtLeast(a, b, threshold) ==
    IF Len(a) + Len(b) = 0 THEN 100 >= threshold
    ELSE 200 * LCS(a, b) >= threshold * (Len(a) + Len(b))

Abs(n) == IF n < 0 THEN -n ELSE n

(* Only the equality test: the similarity of the pair is not looked at. *)
TermHitsExactOnly(token, term, threshold) == Lower(token) = Lower(term)

(* the body of "for term in clean_terms" for one token and one term *)
TermHits(token, term, threshold) ==
    \/ Lower(token) = Lower(term)
    \/ /\ Abs(Len(token) - Len(term)) <= 2
       /\ RatioAtLeast(Lower(token), Lower(term), threshold)

(* should_replace after the loop over clean_terms *)
ShouldReplace(token, clean_terms, threshold) ==
    \E k \in 1 .. Len(clean_terms) :
        TermHits(token, clean_terms[k], threshold)

(* result_tokens for the tokens of the text *)
FuzzyToken(token, clean_terms, threshold) ==
    IF IsDelimiter(token) THEN token
    ELSE IF ShouldReplace(token, clean_terms, threshold) THEN ANONYM
    ELSE token

FuzzyReplace(txt, clean_terms, threshold) ==
    LET tokens == Split(txt) IN
    Join([i \in 1 .. Len(tokens) |->
            FuzzyToken(tokens[i], clean_terms, threshold)])

(* blacklist_replace(txt, terms, fuzzy_matching, fuzzy_threshold) *)
blacklist_replace(txt, terms, fuzzy, threshold) ==
    IF terms = << >> \/ txt = << >> THEN txt
    ELSE IF CleanTerms(terms) = << >> THEN txt
    ELSE IF ~fuzzy THEN ExactReplace(txt, CleanTerms(terms))
    ELSE FuzzyReplace(txt, CleanTerms(terms), threshold)

-----------------------------------------------------------------------------
(* Model asset lifecycle manager: nlp_engine.py *)

(* is_model_available: the marker file exists below the model directory. *)
is_model_available == MarkerMember \in modelFiles

(* dict.get(key, default): the default is used only when the key is absent. *)
DictGet(d, key, default) == IF key \in DOMAIN d THEN d[key] ELSE default

(* os.remove on a path: a file that this process still holds open is        *)
(* unlinked on POSIX and refused (PermissionError) on Windows.               *)
RemoveOutcomes(open) == IF open THEN {"removed", "denied"} ELSE {"removed"}

(* if tmp_path and os.path.exists(tmp_path): try: os.remove(tmp_path) ...    *)
RemoveTmp(files, path, outcome) ==
    IF path # 0 /\ path \in files /\ outcome = "removed"
    THEN files \ {path}
    ELSE files

(* progress = min(downloaded / total_size, 1.0) * 0.95 *)
ChunkProgress(got, total) == Frac(Min(got, total) * 95, total * 100)

(* Outcomes of one progress_callback invocation. *)
CbOutcomes == {"ok", "raises"}

Snapshot ==
    [available |-> is_model_available,
     dirExists |-> dirExists, modelFiles |-> modelFiles, tmpFiles |-> tmpFiles]

(* download_result = {'success': False, 'error': None, 'response': None};    *)
(* the response is << >> for None and << declared length >> otherwise.      *)
EmptyResult == [success |-> FALSE, error |-> "None", response |-> << >>]

Enter(e, cb, auto) ==
    /\ pc = "idle"
    /\ calls < MaxCalls
    /\ calls' = calls + 1
    /\ entry' = e
    /\ hasCb' = cb
    /\ auto_download' = auto
    /\ atCall' = Snapshot
    /\ tmp_path' = 0
    /\ tmpOpen' = FALSE
    /\ download_result' = EmptyResult
    /\ workerAlive' = FALSE
    /\ total_size' = 0
    /\ downloaded' = 0
    /\ nextMember' = 1
    /\ probe' = "none"
    /\ httpRequested' = FALSE
    /\ streamRead' = FALSE
    /\ netUsed' = FALSE
    /\ tmpCreated' = FALSE
    /\ extractStarted' = FALSE
    /\ stages' = {}
    /\ fractions' = << >>
    /\ UNCHANGED << dirExists, modelFiles, tmpFiles >>
    /\ UNCHANGED << engVars, thrVars, dfVars, matchVars, uiVars >>

(* return ok, msg *)
Return(ok, msg) ==
    /\ pc' = "idle"
    /\ ret' = Returned(ok, msg)

(* an exception leaves the function *)
Raise(msg) ==
    /\ pc' = "idle"
    /\ ret' = Raised(msg)

(* except Exception: remove the (closed) temporary file, return failure. *)
ExceptException ==
    /\ tmpFiles' = RemoveTmp(tmpFiles, tmp_path, "removed")
    /\ tmpOpen' = FALSE
    /\ Return(FALSE, "Unerwarteter Fehler")

(* except tarfile.TarError: remove the (closed) temporary file, return failure. *)
ExceptTarError ==
    /\ tmpFiles' = RemoveTmp(tmpFiles, tmp_path, "removed")
    /\ tmpOpen' = FALSE
    /\ Return(FALSE, "Fehler beim Entpacken")

(* if progress_callback: progress_callback(f, ...) ; o is the outcome of the *)
(* invocation. TRUE when control continues after the statement.             *)
Continues(o) == ~hasCb \/ o = "ok"

Reported(stage, f) ==
    /\ stages' = IF hasCb THEN stages \cup {stage} ELSE stages
    /\ fractions' = IF hasCb THEN Report(fractions, f) ELSE fractions

(* download_model_with_progress(progress_callback) *)
download_model_with_progress ==
    /\ \E cb \in BOOLEAN : Enter("download_model_with_progress", cb, FALSE)
    /\ pc' = "makedirs"
    /\ ret' = NoRet

(* download_model(): download_model_with_progress(None) *)
download_model ==
    /\ Enter("download_model", FALSE, FALSE)
    /\ pc' = "makedirs"
    /\ ret' = NoRet

(* The availability check is taken only after the auto_download flag. *)
EnsureDecisionDownloadFirst(available, auto) ==
    IF auto THEN "download"
    ELSE IF available THEN "available"
    ELSE "missing"

EnsureDecision(available, auto) ==
    IF available THEN "available"
    ELSE IF auto THEN "download"
    ELSE "missing"

(* ensure_model_available(auto_download) *)
ensure_model_available ==
    \E auto \in BOOLEAN :
        /\ Enter("ensure_model_available", FALSE, auto)
        /\ LET d == EnsureDecision(is_model_available, auto) IN
            CASE d = "available" -> Return(TRUE, "ist verfuegbar")
              [] d = "missing"   -> Return(FALSE, "ist nicht installiert")
              [] OTHER           -> pc' = "makedirs" /\ ret' = NoRet

(* The directory is prepared without the try/except: the call goes on to  *)
(* the probe whether or not the directory could be created.               *)
MakedirsUnchecked ==
    /\ pc = "makedirs"
    /\ \E ok \in (IF dirExists THEN {TRUE} ELSE BOOLEAN) :
        /\ dirExists' = ok
        /\ pc' = "cb_probe"
        /\ UNCHANGED ret
    /\ UNCHANGED << modelFiles, tmpFiles, netUsed, entry, auto_download, hasCb,
                    calls, tmp_path, tmpOpen, download_result, workerAlive,
                    total_size, downloaded, nextMember, probe, httpRequested,
                    streamRead, tmpCreated, extractStarted, stages, fractions,
                    atCall >>
    /\ UNCHANGED << engVars, thrVars, dfVars, matchVars, uiVars >>

(* os.makedirs(model_dir, exist_ok=True) *)
Makedirs ==
    /\ pc = "makedirs"
    /\ \E ok \in (IF dirExists THEN {TRUE} ELSE BOOLEAN) :
        IF ok
        THEN /\ dirExists' = TRUE
             /\ pc' = "cb_probe"
             /\ UNCHANGED ret
        ELSE /\ Return(FALSE, "Konnte Verzeichnis nicht erstellen")
             /\ UNCHANGED dirExists
    /\ UNCHANGED << modelFiles, tmpFiles, netUsed, entry, auto_download, hasCb,
                    calls, tmp_path, tmpOpen, download_result, workerAlive,
                    total_size, downloaded, nextMember, probe, httpRequested,
                    streamRead, tmpCreated, extractStarted, stages, fractions,
                    atCall >>
    /\ UNCHANGED << engVars, thrVars, dfVars, matchVars, uiVars >>

(* progress_callback(0.0, "Pruefe Netzwerkverbindung...") *)
ReportProbeStart ==
    /\ pc = "cb_probe"
    /\ \E o \in CbOutcomes :
        /\ Reported("probe", Frac(0, 1))
        /\ IF Continues(o)
           THEN pc' = "probe" /\ UNCHANGED ret
           ELSE Raise("progress_callback")
    /\ UNCHANGED << dirExists, modelFiles, tmpFiles, netUsed, entry,
                    auto_download, hasCb, calls, tmp_path, tmpOpen,
                    download_result, workerAlive, total_size, downloaded,
                    nextMember, probe, httpRequested, streamRead, tmpCreated,
                    extractStarted, atCall >>
    /\ UNCHANGED << engVars, thrVars, dfVars, matchVars, uiVars >>

(* The probe result is not looked at. *)
ProbeGateIgnored(ok) == "cb_ok"

(* if not connectivity_ok: return False, ... *)
ProbeGate(ok) == IF ok THEN "cb_ok" ELSE "return"

(* connectivity_ok, connectivity_msg = _check_connectivity() *)
CheckConnectivity ==
    /\ pc = "probe"
    /\ \E ok \in BOOLEAN :
        /\ probe' = IF ok THEN "ok" ELSE "failed"
        /\ netUsed' = TRUE
        /\ IF ProbeGate(ok) = "return"
           THEN Return(FALSE, "Keine Verbindung zu GitHub moeglich")
           ELSE pc' = ProbeGate(ok) /\ UNCHANGED ret
    /\ UNCHANGED << dirExists, modelFiles, tmpFiles, entry, auto_download,
                    hasCb, calls, tmp_path, tmpOpen, download_result,
                    workerAlive, total_size, downloaded, nextMember,
                    httpRequested, streamRead, tmpCreated, extractStarted,
                    stages, fractions, atCall >>
    /\ UNCHANGED << engVars, thrVars, dfVars, matchVars, uiVars >>

(* progress_callback(0.01, "Verbindung OK - starte Download...") *)
ReportProbeOk ==
    /\ pc = "cb_ok"
    /\ \E o \in CbOutcomes :
        /\ Reported("ok", Frac(1, 100))
        /\ IF Continues(o)
           THEN pc' = "mktemp" /\ UNCHANGED ret
           ELSE Raise("progress_callback")
    /\ UNCHANGED << dirExists, modelFiles, tmpFiles, netUsed, entry,
                    auto_download, hasCb, calls, tmp_path, tmpOpen,
                    download_result, workerAlive, total_size, downloaded,
                    nextMember, probe, httpRequested, streamRead, tmpCreated,
                    extractStarted, atCall >>
    /\ UNCHANGED << engVars, thrVars, dfVars, matchVars, uiVars >>

(* with tempfile.NamedTemporaryFile(suffix=".tar.gz", delete=False) ... *)
MakeTemp ==
    /\ pc = "mktemp"
    /\ \E ok \in BOOLEAN :
        IF ok
        THEN /\ tmpFiles' = tmpFiles \cup {calls}
             /\ tmp_path' = calls
             /\ tmpCreated' = TRUE
             /\ pc' = "connect"
             /\ UNCHANGED << ret, tmpOpen >>
        ELSE /\ ExceptException
             /\ UNCHANGED << tmp_path, tmpCreated >>
    /\ UNCHANGED << dirExists, modelFiles, netUsed, entry, auto_download, hasCb,
                    calls, download_result, workerAlive, total_size,
                    downloaded, nextMember, probe, httpRequested, streamRead,
                    extractStarted, stages, fractions, atCall >>
    /\ UNCHANGED << engVars, thrVars, dfVars, matchVars, uiVars >>

(* try_connect on a worker thread, connect_thread.join(timeout=...):        *)
(* the worker got a response, failed with an error, or is still running.    *)
ConnectOutcomes == {"response", "error", "hang"}

WorkerResult(outcome, length) ==
    CASE outcome = "response" ->
            [success |-> TRUE, error |-> "None", response |-> << length >>]
      [] outcome = "error" ->
            [success |-> FALSE, error |-> "URLError", response |-> << >>]
      [] OTHER -> EmptyResult

Connect ==
    /\ pc = "connect"
    /\ \E outcome \in ConnectOutcomes, length \in TotalSizes :
        /\ outcome # "response" => length = 0
        /\ download_result' = WorkerResult(outcome, length)
        /\ workerAlive' = (outcome = "hang")
    /\ httpRequested' = TRUE
    /\ netUsed' = TRUE
    /\ pc' = "joined"
    /\ UNCHANGED << dirExists, modelFiles, tmpFiles, entry, auto_download,
                    hasCb, calls, ret, tmp_path, tmpOpen, total_size,
                    downloaded, nextMember, probe, streamRead, tmpCreated,
                    extractStarted, stages, fractions, atCall >>
    /\ UNCHANGED << engVars, thrVars, dfVars, matchVars, uiVars >>

(* if connect_thread.is_alive() or not download_result['success'] *)
ConnectFailed(alive, result) == alive \/ ~result.success

(* error_msg = download_result.get('error', 'Verbindungs-Timeout - ...') *)
ConnectErrorMsg(result) ==
    DictGet(result, "error", "Verbindungs-Timeout - Server antwortet nicht")

(* f"Netzwerkfehler: {error_msg}. Bitte pruefen Sie ..." *)
NetworkErrorMsg(error_msg) ==
    CASE error_msg = "None" -> "Netzwerkfehler: None"
      [] error_msg = "URLError" -> "Netzwerkfehler: URLError"
      [] OTHER -> "Netzwerkfehler: Verbindungs-Timeout"

AfterJoin ==
    /\ pc = "joined"
    /\ IF ConnectFailed(workerAlive, download_result)
       THEN /\ tmpFiles' = RemoveTmp(tmpFiles, tmp_path, "removed")
            /\ Return(FALSE, NetworkErrorMsg(ConnectErrorMsg(download_result)))
       ELSE IF download_result.response = << >>
       THEN /\ Return(FALSE, "Verbindung fehlgeschlagen")
            /\ UNCHANGED tmpFiles
       ELSE /\ pc' = "cb_connected"
            /\ UNCHANGED << ret, tmpFiles >>
    /\ UNCHANGED << dirExists, modelFiles, netUsed, entry, auto_download, hasCb,
                    calls, tmp_path, tmpOpen, download_result, workerAlive,
                    total_size, downloaded, nextMember, probe, httpRequested,
                    streamRead, tmpCreated, extractStarted, stages, fractions,
                    atCall >>
    /\ UNCHANGED << engVars, thrVars, dfVars, matchVars, uiVars >>

(* progress_callback(0.02, "Verbunden - starte Download...");               *)
(* total_size = int(response.headers.get('content-length', 0)); downloaded = 0 *)
ReportConnected ==
    /\ pc = "cb_connected"
    /\ \E o \in CbOutcomes :
        /\ Reported("connected", Frac(2, 100))
        /\ IF Continues(o)
           THEN /\ total_size' = download_result.response[1]
                /\ downloaded' = 0
                /\ pc' = "open"
                /\ UNCHANGED << ret, tmpFiles, tmpOpen >>
           ELSE /\ ExceptException
                /\ UNCHANGED << total_size, downloaded >>
    /\ UNCHANGED << dirExists, modelFiles, netUsed, entry, auto_download, hasCb,
                    calls, tmp_path, download_result, workerAlive, nextMember,
                    probe, httpRequested, streamRead, tmpCreated,
                    extractStarted, atCall >>
    /\ UNCHANGED << engVars, thrVars, dfVars, matchVars, uiVars >>

(* with open(tmp_path, 'wb') as out_file: *)
OpenOut ==
    /\ pc = "open"
    /\ tmpOpen' = TRUE
    /\ pc' = "read"
    /\ UNCHANGED << dirExists, modelFiles, tmpFiles, netUsed, entry,
                    auto_download, hasCb, calls, ret, tmp_path,
                    download_result, workerAlive, total_size, downloaded,
                    nextMember, probe, httpRequested, streamRead, tmpCreated,
                    extractStarted, stages, fractions, atCall >>
    /\ UNCHANGED << engVars, thrVars, dfVars, matchVars, uiVars >>

(* Units the response can still deliver: a response of declared length never *)
(* yields more than that length, one without a length can go on delivering.  *)
Deliverable(total, got) ==
    IF total > 0 THEN total - got ELSE BlockSize

(* downloaded += len(buffer). With no declared length the program never      *)
(* reads the count, which is kept modulo MaxUnknown there.                   *)
Downloaded(total, got, n) ==
    IF total > 0 THEN got + n ELSE (got + n) % MaxUnknown

(* buffer = response.read(block_size) returned n > 0 units:                 *)
(* downloaded += len(buffer); out_file.write(buffer); progress report       *)
ReadChunk ==
    /\ pc = "read"
    /\ \E n \in 1 .. BlockSize, o \in CbOutcomes :
        /\ n <= Deliverable(total_size, downloaded)
        /\ downloaded' = Downloaded(total_size, downloaded, n)
        /\ IF total_size > 0
           THEN /\ Reported("chunk", ChunkProgress(downloaded + n, total_size))
                /\ IF Continues(o)
                   THEN UNCHANGED << pc, ret, tmpFiles, tmpOpen >>
                   ELSE ExceptException
           ELSE /\ o = "ok"
                /\ UNCHANGED << pc, ret, tmpFiles, tmpOpen, stages, fractions >>
    /\ streamRead' = TRUE
    /\ netUsed' = TRUE
    /\ UNCHANGED << dirExists, modelFiles, entry, auto_download, hasCb, calls,
                    tmp_path, download_result, workerAlive, total_size,
                    nextMember, probe, httpRequested, tmpCreated,
                    extractStarted, atCall >>
    /\ UNCHANGED << engVars, thrVars, dfVars, matchVars, uiVars >>

(* if not buffer: break ; the with block closes out_file; response.close() *)
ReadEof ==
    /\ pc = "read"
    /\ tmpOpen' = FALSE
    /\ pc' = "check"
    /\ streamRead' = TRUE
    /\ netUsed' = TRUE
    /\ UNCHANGED << dirExists, modelFiles, tmpFiles, entry, auto_download,
                    hasCb, calls, ret, tmp_path, download_result, workerAlive,
                    total_size, downloaded, nextMember, probe, httpRequested,
                    tmpCreated, extractStarted, stages, fractions, atCall >>
    /\ UNCHANGED << engVars, thrVars, dfVars, matchVars, uiVars >>

(* except socket.timeout / except Exception around response.read: the       *)
(* temporary file is removed while out_file still holds it open, then the   *)
(* return leaves the with block.                                             *)
ReadFailMsg(kind) ==
    IF kind = "timeout" THEN "Download-Timeout" ELSE "Download-Fehler"

ReadFail ==
    /\ pc = "read"
    /\ \E kind \in {"timeout", "error"}, rm \in RemoveOutcomes(tmpOpen) :
        /\ tmpFiles' = RemoveTmp(tmpFiles, tmp_path, rm)
        /\ Return(FALSE, ReadFailMsg(kind))
    /\ tmpOpen' = FALSE
    /\ streamRead' = TRUE
    /\ netUsed' = TRUE
    /\ UNCHANGED << dirExists, modelFiles, entry, auto_download, hasCb, calls,
                    tmp_path, download_result, workerAlive, total_size,
                    downloaded, nextMember, probe, httpRequested, tmpCreated,
                    extractStarted, stages, fractions, atCall >>
    /\ UNCHANGED << engVars, thrVars, dfVars, matchVars, uiVars >>

(* The completeness test is left out: no transfer counts as incomplete. *)
IncompleteNever(total, got) == FALSE

(* if total_size > 0 and downloaded < total_size *)
Incomplete(total, got) == total > 0 /\ got < total

CheckComplete ==
    /\ pc = "check"
    /\ IF Incomplete(total_size, downloaded)
       THEN /\ tmpFiles' = RemoveTmp(tmpFiles, tmp_path, "removed")
            /\ Return(FALSE, "Download unvollstaendig")
       ELSE /\ pc' = "cb_unpack"
            /\ UNCHANGED << ret, tmpFiles >>
    /\ UNCHANGED << dirExists, modelFiles, netUsed, entry, auto_download, hasCb,
                    calls, tmp_path, tmpOpen, download_result, workerAlive,
                    total_size, downloaded, nextMember, probe, httpRequested,
                    streamRead, tmpCreated, extractStarted, stages, fractions,
                    atCall >>
    /\ UNCHANGED << engVars, thrVars, dfVars, matchVars, uiVars >>

(* progress_callback(0.96, "Entpacke Modell...") *)
ReportUnpack ==
    /\ pc = "cb_unpack"
    /\ \E o \in CbOutcomes :
        /\ Reported("unpack", Frac(96, 100))
        /\ IF Continues(o)
           THEN pc' = "tar_open" /\ UNCHANGED << ret, tmpFiles, tmpOpen >>
           ELSE ExceptException
    /\ UNCHANGED << dirExists, modelFiles, netUsed, entry, auto_download, hasCb,
                    calls, tmp_path, download_result, workerAlive, total_size,
                    downloaded, nextMember, probe, httpRequested, streamRead,
                    tmpCreated, extractStarted, atCall >>
    /\ UNCHANGED << engVars, thrVars, dfVars, matchVars, uiVars >>

(* with tarfile.open(tmp_path, "r:gz") as tar: *)
TarOpen ==
    /\ pc = "tar_open"
    /\ extractStarted' = TRUE
    /\ \E ok \in BOOLEAN :
        IF ok
        THEN /\ pc' = "extract"
             /\ nextMember' = 1
             /\ UNCHANGED << ret, tmpFiles, tmpOpen >>
        ELSE /\ ExceptTarError
             /\ UNCHANGED nextMember
    /\ UNCHANGED << dirExists, modelFiles, netUsed, entry, auto_download, hasCb,
                    calls, tmp_path, download_result, workerAlive, total_size,
                    downloaded, probe, httpRequested, streamRead, tmpCreated,
                    stages, fractions, atCall >>
    /\ UNCHANGED << engVars, thrVars, dfVars, matchVars, uiVars >>

(* tar.extractall(model_dir): the members are written into the model        *)
(* directory one after the other; an error ends the extraction where it is. *)
ExtractMember ==
    /\ pc = "extract"
    /\ nextMember <= NumMembers
    /\ \E outcome \in {"written", "TarError", "OSError"} :
        CASE outcome = "written" ->
                /\ modelFiles' = modelFiles \cup {nextMember}
                /\ nextMember' = nextMember + 1
                /\ UNCHANGED << pc, ret, tmpFiles, tmpOpen >>
          [] outcome = "TarError" ->
                /\ ExceptTarError
                /\ UNCHANGED << modelFiles, nextMember >>
          [] OTHER ->
                /\ ExceptException
                /\ UNCHANGED << modelFiles, nextMember >>
    /\ UNCHANGED << dirExists, netUsed, entry, auto_download, hasCb, calls,
                    tmp_path, download_result, workerAlive, total_size,
                    downloaded, probe, httpRequested, streamRead, tmpCreated,
                    extractStarted, stages, fractions, atCall >>
    /\ UNCHANGED << engVars, thrVars, dfVars, matchVars, uiVars >>

ExtractDone ==
    /\ pc = "extract"
    /\ nextMember > NumMembers
    /\ pc' = "cb_done"
    /\ UNCHANGED << dirExists, modelFiles, tmpFiles, netUsed, entry,
                    auto_download, hasCb, calls, ret, tmp_path, tmpOpen,
                    download_result, workerAlive, total_size, downloaded,
                    nextMember, probe, httpRequested, streamRead, tmpCreated,
                    extractStarted, stages, fractions, atCall >>
    /\ UNCHANGED << engVars, thrVars, dfVars, matchVars, uiVars >>

(* progress_callback(1.0, "Fertig!") *)
ReportDone ==
    /\ pc = "cb_done"
    /\ \E o \in CbOutcomes :
        /\ Reported("done", Frac(1, 1))
        /\ IF Continues(o)
           THEN pc' = "final_remove" /\ UNCHANGED << ret, tmpFiles, tmpOpen >>
           ELSE ExceptException
    /\ UNCHANGED << dirExists, modelFiles, netUsed, entry, auto_download, hasCb,
                    calls, tmp_path, download_result, workerAlive, total_size,
                    downloaded, nextMember, probe, httpRequested, streamRead,
                    tmpCreated, extractStarted, atCall >>
    /\ UNCHANGED << engVars, thrVars, dfVars, matchVars, uiVars >>

(* if tmp_path and os.path.exists(tmp_path): os.remove(tmp_path); return True *)
FinalRemove ==
    /\ pc = "final_remove"
    /\ tmpFiles' = RemoveTmp(tmpFiles, tmp_path, "removed")
    /\ Return(TRUE, "Modell erfolgreich heruntergeladen und installiert")
    /\ UNCHANGED << dirExists, modelFiles, netUsed, entry, auto_download, hasCb,
                    calls, tmp_path, tmpOpen, download_result, workerAlive,
                    total_size, downloaded, nextMember, probe, httpRequested,
                    streamRead, tmpCreated, extractStarted, stages, fractions,
                    atCall >>
    /\ UNCHANGED << engVars, thrVars, dfVars, matchVars, uiVars >>

-----------------------------------------------------------------------------
(* The recognizer singleton: _initialize_engines, get_analyzer and           *)
(* get_anonymizer of nlp_engine.py, run by several threads. Each action is   *)
(* one read or write of a module global by one thread.                       *)

Getters == {"get_analyzer", "get_anonymizer"}

At(t, where) == tpc' = [tpc EXCEPT ![t] = where]

(* a thread enters get_analyzer() or get_anonymizer() *)
CallGetter(t) ==
    /\ tpc[t] = "idle"
    /\ tcalls[t] < MaxGets
    /\ \E fn \in Getters : tfn' = [tfn EXCEPT ![t] = fn]
    /\ tcalls' = [tcalls EXCEPT ![t] = @ + 1]
    /\ raisedTo' = raisedTo \ {t}
    /\ At(t, "getter_check")
    /\ UNCHANGED << engVars, handed, dlVars, dfVars, matchVars, uiVars >>

(* The getter without its test: it returns the global as it is. *)
GetterCheckSkipped(t) ==
    /\ tpc[t] = "getter_check"
    /\ At(t, "getter_return")
    /\ UNCHANGED << engVars, tfn, tcalls, handed, raisedTo, dlVars, dfVars, matchVars, uiVars >>

(* get_analyzer / get_anonymizer: if not _initialized: _initialize_engines() *)
GetterCheck(t) ==
    /\ tpc[t] = "getter_check"
    /\ At(t, IF _initialized THEN "getter_return" ELSE "init_check")
    /\ UNCHANGED << engVars, tfn, tcalls, handed, raisedTo, dlVars, dfVars, matchVars, uiVars >>

(* _initialize_engines: if _initialized: return *)
InitCheck(t) ==
    /\ tpc[t] = "init_check"
    /\ At(t, IF _initialized THEN "getter_return" ELSE "init_model")
    /\ UNCHANGED << engVars, tfn, tcalls, handed, raisedTo, dlVars, dfVars, matchVars, uiVars >>

(* if not is_model_available(): raise RuntimeError(...) *)
InitModelCheck(t) ==
    /\ tpc[t] = "init_model"
    /\ IF is_model_available
       THEN /\ At(t, "init_build")
            /\ UNCHANGED raisedTo
       ELSE /\ At(t, "idle")
            /\ raisedTo' = raisedTo \cup {t}
    /\ UNCHANGED << engVars, tfn, tcalls, handed, dlVars, dfVars, matchVars, uiVars >>

(* provider.create_engine(); _analyzer = AnalyzerEngine(nlp_engine=...):    *)
(* the model is loaded and a new analyzer instance is stored, or the load   *)
(* raises.                                                                   *)
InitBuild(t) ==
    /\ tpc[t] = "init_build"
    /\ \E ok \in BOOLEAN :
        IF ok
        THEN /\ built' = built + 1
             /\ _analyzer' = built + 1
             /\ At(t, "init_anonymizer")
             /\ UNCHANGED raisedTo
        ELSE /\ At(t, "idle")
             /\ raisedTo' = raisedTo \cup {t}
             /\ UNCHANGED << built, _analyzer >>
    /\ UNCHANGED << _initialized, _anonymizer, tfn, tcalls, handed, dlVars, dfVars, matchVars, uiVars >>

(* _anonymizer = AnonymizerEngine(): a new instance, made by the thread that *)
(* made analyzer number _analyzer or by one that made an earlier one, or the *)
(* construction raises.                                                       *)
InitAnonymizer(t) ==
    /\ tpc[t] = "init_anonymizer"
    /\ \E ok \in BOOLEAN :
        IF ok
        THEN /\ _anonymizer' = _anonymizer + 1
             /\ At(t, "init_flag")
             /\ UNCHANGED raisedTo
        ELSE /\ At(t, "idle")
             /\ raisedTo' = raisedTo \cup {t}
             /\ UNCHANGED _anonymizer
    /\ UNCHANGED << _initialized, _analyzer, built, tfn, tcalls, handed,
                    dlVars, dfVars, matchVars, uiVars >>

(* _initialized = True *)
InitFlag(t) ==
    /\ tpc[t] = "init_flag"
    /\ _initialized' = TRUE
    /\ At(t, "getter_return")
    /\ UNCHANGED << _analyzer, _anonymizer, built, tfn, tcalls, handed,
                    raisedTo, dlVars, dfVars, matchVars, uiVars >>

(* return _analyzer / return _anonymizer *)
GetterValue(fn) == IF fn = "get_analyzer" THEN _analyzer ELSE _anonymizer

GetterReturn(t) ==
    /\ tpc[t] = "getter_return"
    /\ handed' = handed \cup {<< tfn[t], GetterValue(tfn[t]) >>}
    /\ At(t, "idle")
    /\ UNCHANGED << engVars, tfn, tcalls, raisedTo, dlVars, dfVars, matchVars, uiVars >>

-----------------------------------------------------------------------------
(* Record anonymization pipeline: anonymize_content and anonymize_dataframe  *)
(* of anonymizer.py. A cell value is [kind, text]: kind is the Python type   *)
(* ("null" for None/NaN, "absent" when the frame has no value column) and    *)
(* text is str(value).                                                       *)

FREETEXT_SOURCE_TYPES ==
    {"Arztnotizen", "Anamnese", "Visite", "Status", "Anaesthesieuebergabe",
     "Kardiotechnik (Notizen)", "Mikrobiologie", "Atmungstherapie",
     "Bronchoskopie", "Meilensteine", "Visite durchgefuehrt von",
     "weitere TeilnehmerInnen", "fachaerztliche Behandlungsleitung",
     "fachaerztliche Behandlungsleitung (WDA1I, WD4I)", "Anaesthesiepflege",
     "HK Befund", "Reanimation", "Verbal Rate Skala", "Intensivmedizin",
     "Operation/Datum/Operateur",
     "Therapieplanung Folgewoche/Ziele/Sonstiges",
     "Behandlungsergebnisse/akt. Situation"}

DefaultThreshold == 85    \* fuzzy_threshold: int = 85
MinLength == 5            \* if len(value_str) < 5
ProgressEvery == 100      \* processed % 100 == 0

StrValue(t) == [kind |-> "str", text |-> t]

(* df_anon['value'].notna() & (df_anon['value'].astype(str).str.strip() != '') *)
IsCandidate(v) == v.kind # "null" /\ Strip(v.text) # << >>

(* isinstance(value, (int, float)) *)
IsNumeric(v) == v.kind \in {"int", "float"}

(* The column test is left out: every row counts as freetext. *)
FreetextIndicesAll(rows, has_source_type) == 1 .. Len(rows)

(* df_anon[df_anon['source_type'].isin(FREETEXT_SOURCE_TYPES)].index *)
FreetextIndices(rows, has_source_type) ==
    IF has_source_type
    THEN {i \in 1 .. Len(rows) : rows[i].source_type \in FREETEXT_SOURCE_TYPES}
    ELSE {}

(* The labels of the selected rows among rows lo .. hi, in row order. *)
RECURSIVE SelectedFrom(_, _, _)
SelectedFrom(rows, lo, hi) ==
    IF lo > hi THEN << >>
    ELSE IF lo = hi
         THEN IF IsCandidate(rows[lo].value) THEN << lo >> ELSE << >>
    ELSE LET mid == (lo + hi) \div 2
         IN  SelectedFrom(rows, lo, mid) \o SelectedFrom(rows, mid + 1, hi)

(* df_anon[value_mask].index.tolist() *)
RowsToProcess(rows) == SelectedFrom(rows, 1, Len(rows))

(* The external recognizer (Presidio on the spaCy model) stands behind      *)
(* get_analyzer().analyze and get_anonymizer().anonymize: here it knows one *)
(* person name, which it replaces by <ANONYM>, and it raises on a text that *)
(* holds the character "#".                                                  *)
PersonName == << "A", "n", "n", "a" >>

RECURSIVE RedactPersons(_)
RedactPersons(text) ==
    IF text = << >> THEN << >>
    ELSE IF Len(text) >= Len(PersonName)
            /\ SubSeq(text, 1, Len(PersonName)) = PersonName
         THEN ANONYM
              \o RedactPersons(SubSeq(text, Len(PersonName) + 1, Len(text)))
         ELSE << Head(text) >> \o RedactPersons(Tail(text))

AnalyzeFails(text) == \E i \in 1 .. Len(text) : text[i] = "#"

(* The recognizer alone: the matcher is not run on its output. *)
anonymize_content_recognizer_only(text, terms, fuzzy, threshold) ==
    RedactPersons(text)

(* anonymize_content(text, blacklist, fuzzy_matching, fuzzy_threshold) when *)
(* the recognizer does not raise                                             *)
anonymize_content(text, terms, fuzzy, threshold) ==
    IF text = << >> THEN << >>
    ELSE LET final_text == RedactPersons(text)
         IN  IF terms # << >>
             THEN blacklist_replace(final_text, terms, fuzzy, threshold)
             ELSE final_text

(* get_analyzer() on first use in the pipeline's thread: the engines are    *)
(* there, or the model is missing, or the model is loaded now or fails to.  *)
GetAnalyzerOutcomes ==
    IF _initialized THEN {"ready"}
    ELSE IF ~is_model_available THEN {"RuntimeError"}
    ELSE {"built", "load_error"}

DfNoRet == [status |-> "none", ref |-> 0]
DfReturned(r) == [status |-> "returned", ref |-> r]

(* The copy is left out: the result is the caller's frame itself. *)
DfCopyAliased(frs, r) == [frames |-> frs, ref |-> r]

(* df.copy(): a new frame with the same cells *)
DfCopy(frs, r) == [frames |-> Append(frs, frs[r]), ref |-> Len(frs) + 1]

(* df_anon.at[idx, 'value'] = v *)
SetCell(frs, r, idx, v) == [frs EXCEPT ![r][idx].value = v]

(* The column test is left out. *)
LacksValueNever(cols) == FALSE

(* 'value' not in df_anon.columns *)
LacksValue(cols) == "value" \notin cols

(* lines 169-203: the early returns, the copy and the row selection *)
AnonymizeStart ==
    /\ df_pc = "start"
    /\ LET c == DfCopy(frames, 1)
           rows == c.frames[c.ref]
           clean == CleanTerms(blacklist)
           has_source_type == "source_type" \in columns
           exit == CASE frames[1] = << >> -> "empty"
                     [] LacksValue(columns) -> "no_value"
                     [] clean = << >> /\ ~has_source_type -> "nothing"
                     [] "value" \notin columns -> "KeyError"
                     [] OTHER -> "loop"
       IN  /\ frames' = IF exit = "empty" THEN frames ELSE c.frames
           /\ df_anon' = IF exit = "empty" THEN 0 ELSE c.ref
           /\ clean_blacklist' =
                 IF exit \in {"nothing", "loop"} THEN clean ELSE << >>
           /\ freetext_indices' =
                 IF exit = "loop"
                 THEN FreetextIndices(rows, has_source_type) ELSE {}
           /\ rows_to_process' =
                 IF exit = "loop" THEN RowsToProcess(rows) ELSE << >>
           /\ reports' =
                 IF exit = "loop" /\ dfCb THEN << Frac(0, 1) >> ELSE << >>
           /\ df_pc' = IF exit = "loop" THEN "loop" ELSE "done"
           /\ df_ret' = CASE exit = "empty" -> DfReturned(1)
                          [] exit = "loop" -> DfNoRet
                          [] exit = "KeyError" ->
                                [status |-> "raised", ref |-> 0]
                          [] OTHER -> DfReturned(c.ref)
    /\ pos' = 1
    /\ processed' = 0
    /\ UNCHANGED << columns, blacklist, fuzzy_matching, fuzzy_threshold, dfCb,
                    recognized, matched, nlpErrors >>
    /\ UNCHANGED << dlVars, engVars, thrVars, matchVars, uiVars >>

InLoop == df_pc = "loop" /\ pos <= Len(rows_to_process)

CurrentIdx == rows_to_process[pos]

CurrentValue == frames[df_anon][CurrentIdx].value

(* progress = processed / len(rows_to_process) *)
RowProgress(count, candidates) == Frac(count, candidates)

(* if progress_callback and processed % 100 == 0: progress_callback(...) *)
AfterRow(count) ==
    IF dfCb /\ count % ProgressEvery = 0
    THEN Append(reports, RowProgress(count, Len(rows_to_process)))
    ELSE reports

(* The length test is left out: no value counts as short. *)
IsShortNever(value_str) == FALSE

(* len(value_str) < 5 *)
IsShort(value_str) == Len(value_str) < MinLength

(* numeric values and strings shorter than 5: processed += 1; continue *)
SkipRow ==
    /\ InLoop
    /\ IsNumeric(CurrentValue) \/ IsShort(CurrentValue.text)
    /\ processed' = processed + 1
    /\ pos' = pos + 1
    /\ UNCHANGED << frames, columns, blacklist, fuzzy_matching,
                    fuzzy_threshold, dfCb, df_pc, df_anon, clean_blacklist,
                    freetext_indices, rows_to_process, df_ret, reports,
                    recognized, matched, nlpErrors >>
    /\ UNCHANGED << dlVars, engVars, thrVars, matchVars, uiVars >>

(* except Exception: only the blacklist, on the original value *)
FallbackValue(value, terms, fuzzy, threshold) ==
    IF terms # << >>
    THEN StrValue(blacklist_replace(value.text, terms, fuzzy, threshold))
    ELSE value

(* The error of the recognizer is not caught at the row. *)
RowRaisesUncaught(raised) == raised

(* try: ... except Exception as e: the error stays inside the row *)
RowRaises(raised) == FALSE

(* idx in freetext_indices: anonymize_content, with the fallback on error *)
FreetextRow ==
    /\ InLoop
    /\ ~IsNumeric(CurrentValue) /\ ~IsShort(CurrentValue.text)
    /\ CurrentIdx \in freetext_indices
    /\ \E e \in GetAnalyzerOutcomes :
        LET raised == e \in {"RuntimeError", "load_error"}
                      \/ AnalyzeFails(CurrentValue.text)
            new == IF raised
                   THEN FallbackValue(CurrentValue, clean_blacklist,
                                      fuzzy_matching, fuzzy_threshold)
                   ELSE StrValue(anonymize_content(
                            CurrentValue.text, clean_blacklist,
                            fuzzy_matching, fuzzy_threshold))
        IN  /\ IF e = "built"
               THEN /\ _initialized' = TRUE
                    /\ _analyzer' = built + 1
                    /\ _anonymizer' = _anonymizer + 1
                    /\ built' = built + 1
               ELSE UNCHANGED engVars
            /\ recognized' = recognized \cup {CurrentIdx}
            /\ nlpErrors' = IF raised THEN nlpErrors \cup {CurrentIdx}
                            ELSE nlpErrors
            /\ matched' = IF clean_blacklist # << >>
                          THEN matched \cup {CurrentIdx} ELSE matched
            /\ IF RowRaises(raised)
               THEN /\ df_ret' = [status |-> "raised", ref |-> 0]
                    /\ df_pc' = "done"
                    /\ UNCHANGED << frames, processed, pos, reports >>
               ELSE /\ frames' = SetCell(frames, df_anon, CurrentIdx, new)
                    /\ processed' = processed + 1
                    /\ pos' = pos + 1
                    /\ reports' = AfterRow(processed + 1)
                    /\ UNCHANGED << df_ret, df_pc >>
    /\ UNCHANGED << columns, blacklist, fuzzy_matching, fuzzy_threshold, dfCb,
                    df_anon, clean_blacklist, freetext_indices,
                    rows_to_process >>
    /\ UNCHANGED << dlVars, thrVars, matchVars, uiVars >>

(* else: if clean_blacklist: blacklist_replace on the value *)
StructuredRow ==
    /\ InLoop
    /\ ~IsNumeric(CurrentValue) /\ ~IsShort(CurrentValue.text)
    /\ CurrentIdx \notin freetext_indices
    /\ frames' = IF clean_blacklist # << >>
                 THEN SetCell(frames, df_anon, CurrentIdx,
                              StrValue(blacklist_replace(
                                  CurrentValue.text, clean_blacklist,
                                  fuzzy_matching, fuzzy_threshold)))
                 ELSE frames
    /\ matched' = IF clean_blacklist # << >>
                  THEN matched \cup {CurrentIdx} ELSE matched
    /\ processed' = processed + 1
    /\ pos' = pos + 1
    /\ reports' = AfterRow(processed + 1)
    /\ UNCHANGED << columns, blacklist, fuzzy_matching, fuzzy_threshold, dfCb,
                    df_pc, df_anon, clean_blacklist, freetext_indices,
                    rows_to_process, df_ret, recognized, nlpErrors >>
    /\ UNCHANGED << dlVars, engVars, thrVars, matchVars, uiVars >>

(* progress_callback(1.0, "Anonymisierung abgeschlossen.") *)
FinalReport(rs) == IF dfCb THEN Append(rs, Frac(1, 1)) ELSE rs

(* after the loop: the final report and return df_anon *)
AnonymizeFinish ==
    /\ df_pc = "loop"
    /\ pos > Len(rows_to_process)
    /\ reports' = FinalReport(reports)
    /\ df_ret' = DfReturned(df_anon)
    /\ df_pc' = "done"
    /\ UNCHANGED << frames, columns, blacklist, fuzzy_matching,
                    fuzzy_threshold, dfCb, df_anon, clean_blacklist,
                    freetext_indices, rows_to_process, pos, processed,
                    recognized, matched, nlpErrors >>
    /\ UNCHANGED << dlVars, engVars, thrVars, matchVars, uiVars >>

-----------------------------------------------------------------------------
(* The lifecycle manager, called repeatedly by one caller. *)

InitFilesystem ==
    /\ dirExists \in BOOLEAN
    /\ modelFiles \in {{}, 1 .. NumMembers}
    /\ dirExists \/ modelFiles = {}
    /\ tmpFiles = {}

InitCaller ==
    /\ netUsed = FALSE
    /\ pc = "idle"
    /\ entry = "none"
    /\ auto_download = FALSE
    /\ hasCb = FALSE
    /\ calls = 0
    /\ ret = NoRet
    /\ tmp_path = 0
    /\ tmpOpen = FALSE
    /\ download_result = EmptyResult
    /\ workerAlive = FALSE
    /\ total_size = 0
    /\ downloaded = 0
    /\ nextMember = 1
    /\ probe = "none"
    /\ httpRequested = FALSE
    /\ streamRead = FALSE
    /\ tmpCreated = FALSE
    /\ extractStarted = FALSE
    /\ stages = {}
    /\ fractions = << >>
    /\ atCall = Snapshot

(* _analyzer = None; _anonymizer = None; _initialized = False *)
InitEngines ==
    /\ _initialized = FALSE
    /\ _analyzer = 0
    /\ _anonymizer = 0
    /\ built = 0

Threads == 1 .. NumThreads

InitThreads ==
    /\ tpc = [t \in Threads |-> "idle"]
    /\ tfn = [t \in Threads |-> "none"]
    /\ tcalls = [t \in Threads |-> 0]
    /\ handed = {}
    /\ raisedTo = {}

(* anonymize_dataframe is not called. *)
PipelineUnused ==
    /\ frames = << << >> >>
    /\ columns = {"value", "source_type"}
    /\ blacklist = << >>
    /\ fuzzy_matching = TRUE
    /\ fuzzy_threshold = DefaultThreshold
    /\ dfCb = FALSE
    /\ df_pc = "unused"
    /\ df_anon = 0
    /\ clean_blacklist = << >>
    /\ freetext_indices = {}
    /\ rows_to_process = << >>
    /\ pos = 1
    /\ processed = 0
    /\ df_ret = DfNoRet
    /\ reports = << >>
    /\ recognized = {}
    /\ matched = {}
    /\ nlpErrors = {}

(* blacklist_replace is not called on its own. *)
(* The action button of the anonymization tab is not used. *)
UiUnused ==
    /\ _is_downloading = FALSE
    /\ _is_anonymizing = FALSE
    /\ action_disabled = FALSE
    /\ app_state = [df |-> "none", is_anonymized |-> FALSE]
    /\ hpc = << >>
    /\ wkind = << >>
    /\ wpc = << >>

MatcherUnused ==
    /\ mpc = "unused"
    /\ call = [txt |-> << >>, terms |-> << >>, fuzzy_matching |-> TRUE,
               fuzzy_threshold |-> DefaultThreshold]
    /\ replaced = << >>
    /\ replaced_again = << >>
    /\ replaced_permuted = {}

Init ==
    /\ InitFilesystem
    /\ InitCaller
    /\ InitEngines
    /\ InitThreads
    /\ PipelineUnused
    /\ MatcherUnused
    /\ UiUnused

Next ==
    \/ download_model_with_progress
    \/ download_model
    \/ ensure_model_available
    \/ Makedirs
    \/ ReportProbeStart
    \/ CheckConnectivity
    \/ ReportProbeOk
    \/ MakeTemp
    \/ Connect
    \/ AfterJoin
    \/ ReportConnected
    \/ OpenOut
    \/ ReadChunk
    \/ ReadEof
    \/ ReadFail
    \/ CheckComplete
    \/ ReportUnpack
    \/ TarOpen
    \/ ExtractMember
    \/ ExtractDone
    \/ ReportDone
    \/ FinalRemove

Spec == Init /\ [][Next]_vars

(* The steps of a call that has been entered: the calling thread keeps       *)
(* running, so a step that stays possible is taken at some time.             *)
CallStep ==
    \/ Makedirs
    \/ ReportProbeStart
    \/ CheckConnectivity
    \/ ReportProbeOk
    \/ MakeTemp
    \/ Connect
    \/ AfterJoin
    \/ ReportConnected
    \/ OpenOut
    \/ ReadChunk
    \/ ReadEof
    \/ ReadFail
    \/ CheckComplete
    \/ ReportUnpack
    \/ TarOpen
    \/ ExtractMember
    \/ ExtractDone
    \/ ReportDone
    \/ FinalRemove

SpecLive == Init /\ [][Next]_vars /\ WF_vars(CallStep)

-----------------------------------------------------------------------------
(* The recognizer singleton used by concurrent threads. *)

NextEngine ==
    \E t \in Threads :
        \/ CallGetter(t)
        \/ GetterCheck(t)
        \/ InitCheck(t)
        \/ InitModelCheck(t)
        \/ InitBuild(t)
        \/ InitAnonymizer(t)
        \/ InitFlag(t)
        \/ GetterReturn(t)

SpecEngine == Init /\ [][NextEngine]_vars

-----------------------------------------------------------------------------
(* One call of anonymize_dataframe on a dataset chosen from the inputs below. *)

NameText == << "M", "a", "i", "e", "r", " ", "k", "a", "m", "." >>
NerText == << "A", "n", "n", "a", " ", "M", "a", "i", "e", "r" >>
BadText == << "M", "a", "i", "e", "r", " ", "#", "#" >>
ShortText == << "j", "a" >>
BlankText == << " ", " " >>
DigitsText == << "1", "2", "3", "4", "5" >>

(* A cell is None/NaN, a Python int (object column), a numpy.int64 (the cell  *)
(* of an integer-typed column, which is not an instance of int), or a str.  *)
Values ==
    { [kind |-> "null", text |-> << >>],
      [kind |-> "int", text |-> DigitsText],
      [kind |-> "int64", text |-> DigitsText],
      StrValue(BlankText), StrValue(ShortText), StrValue(NameText),
      StrValue(NerText), StrValue(BadText) }

Categories == {"Visite", "Labor"}

RowsFor(cols) ==
    { [value |-> v, source_type |-> c] :
        v \in (IF "value" \in cols THEN Values
               ELSE {[kind |-> "absent", text |-> << >>]}),
        c \in (IF "source_type" \in cols THEN Categories ELSE {"-"}) }

ColumnSets == {{"value", "source_type"}, {"value"}, {"source_type"}}

Blacklists ==
    { << >>,
      << << " " >> >>,
      << << " " >>, << " ", "m", "a", "i", "e", "r" >>, ShortText >> }

SmallDatasets(cols) ==
    UNION { [1 .. n -> RowsFor(cols)] : n \in 0 .. MaxRows }

(* Long datasets: every row is a, except row number ProgressEvery, which is b. *)
LongLengths ==
    { ProgressEvery * k + r : k \in 1 .. MaxHundreds, r \in 0 .. MaxExtra }

LongRows ==
    { [value |-> v, source_type |-> "Labor"] :
        v \in { [kind |-> "int", text |-> DigitsText], StrValue(NameText) } }

LongDatasets ==
    { [i \in 1 .. n |-> IF i = ProgressEvery THEN b ELSE a] :
        n \in LongLengths, a \in LongRows, b \in LongRows }

InitPipeline ==
    /\ columns \in ColumnSets
    /\ \E rows \in SmallDatasets(columns)
                 \cup (IF columns = {"value", "source_type"}
                       THEN LongDatasets ELSE {}) :
          frames = << rows >>
    /\ blacklist \in Blacklists
    /\ fuzzy_matching \in BOOLEAN
    /\ fuzzy_threshold = DefaultThreshold
    /\ dfCb \in BOOLEAN
    /\ df_pc = "start"
    /\ df_anon = 0
    /\ clean_blacklist = << >>
    /\ freetext_indices = {}
    /\ rows_to_process = << >>
    /\ pos = 1
    /\ processed = 0
    /\ df_ret = DfNoRet
    /\ reports = << >>
    /\ recognized = {}
    /\ matched = {}
    /\ nlpErrors = {}

InitDF ==
    /\ dirExists = TRUE
    /\ modelFiles \in {{}, 1 .. NumMembers}
    /\ tmpFiles = {}
    /\ InitCaller
    /\ InitEngines
    /\ InitThreads
    /\ InitPipeline
    /\ MatcherUnused
    /\ UiUnused

NextDF ==
    \/ AnonymizeStart
    \/ SkipRow
    \/ FreetextRow
    \/ StructuredRow
    \/ AnonymizeFinish

SpecDF == InitDF /\ [][NextDF]_vars

-----------------------------------------------------------------------------
(* blacklist_replace called on its own, on a text and a term list chosen    *)
(* from the inputs below, then on its own output, and with the term list in *)
(* every order.                                                              *)

MaxLen == 3
MaxTerms == 2

Alphabet == {"A", "b", " ", "."}

TextsUpTo(n) == UNION { [1 .. k -> Alphabet] : k \in 0 .. n }

(* The example of the exact mode: 'Herr Muller kam.' and two spellings. *)
ExampleText ==
    << "H", "e", "r", "r", " ", "M", "u", "l", "l", "e", "r", " ", "k", "a",
       "m", "." >>
ExampleTerm == << "M", "u", "l", "l", "e", "r" >>
ExampleTypo == << "m", "u", "l", "e", "r", " " >>
(* Half of the word: similar enough at the low threshold, 3 characters shorter. *)
ExampleStem == << "M", "u", "l" >>

Terms == { << " " >>, << " ", "a" >>, << "b" >>, << "b", "A" >> }

TermLists == UNION { [1 .. k -> Terms] : k \in 0 .. MaxTerms }

(* fuzzy_matching and fuzzy_threshold: exact, fuzzy at the default of 85,   *)
(* fuzzy at a lower threshold.                                               *)
LowThreshold == 60

Modes ==
    { << FALSE, DefaultThreshold >>, << TRUE, DefaultThreshold >>,
      << TRUE, LowThreshold >> }

Calls ==
    { [txt |-> t, terms |-> ts, fuzzy_matching |-> m[1],
       fuzzy_threshold |-> m[2]] :
        t \in TextsUpTo(MaxLen), ts \in TermLists, m \in Modes }
    \cup
    { [txt |-> ExampleText, terms |-> ts, fuzzy_matching |-> m[1],
       fuzzy_threshold |-> m[2]] :
        ts \in { << ExampleTerm >>, << ExampleTypo >>, << ExampleStem >>,
                 << << " " >>, ExampleTerm >> },
        m \in Modes }

InitMatcher ==
    /\ mpc = "start"
    /\ call \in Calls
    /\ replaced = << >>
    /\ replaced_again = << >>
    /\ replaced_permuted = {}

InitMatch ==
    /\ dirExists = TRUE
    /\ modelFiles = {}
    /\ tmpFiles = {}
    /\ InitCaller
    /\ InitEngines
    /\ InitThreads
    /\ PipelineUnused
    /\ InitMatcher
    /\ UiUnused

(* The term list in every order. *)
Orders(ts) ==
    LET n == Len(ts)
    IN  { [i \in 1 .. n |-> ts[p[i]]] :
            p \in { q \in [1 .. n -> 1 .. n] :
                      \A i, j \in 1 .. n : q[i] = q[j] => i = j } }

Applied(text, ts) ==
    blacklist_replace(text, ts, call.fuzzy_matching, call.fuzzy_threshold)

(* blacklist_replace(txt, terms, fuzzy_matching, fuzzy_threshold), and the  *)
(* same call for each order of terms                                         *)
Apply ==
    /\ mpc = "start"
    /\ replaced' = Applied(call.txt, call.terms)
    /\ replaced_permuted' =
          { Applied(call.txt, ts) : ts \in Orders(call.terms) }
    /\ mpc' = "applied"
    /\ UNCHANGED << call, replaced_again >>
    /\ UNCHANGED << dlVars, engVars, thrVars, dfVars, uiVars >>

(* blacklist_replace(replaced, terms, fuzzy_matching, fuzzy_threshold) *)
Reapply ==
    /\ mpc = "applied"
    /\ replaced_again' = Applied(replaced, call.terms)
    /\ mpc' = "reapplied"
    /\ UNCHANGED << call, replaced, replaced_permuted >>
    /\ UNCHANGED << dlVars, engVars, thrVars, dfVars, uiVars >>

NextMatch ==
    \/ Apply
    \/ Reapply

SpecMatch == InitMatch /\ [][NextMatch]_vars

-----------------------------------------------------------------------------
(* The action button of AnonymizeTab (ui/tabs/anonymize.py). Each click is  *)
(* handled by _handle_action_click on a thread of its own, and the handler  *)
(* starts the worker thread download_thread or anonymize_thread. Each       *)
(* action is one read or write of a field by one of these threads.          *)

Clicks == 1 .. NumClicks

HandlerAt(c, where) == hpc' = [hpc EXCEPT ![c] = where]

WorkerAt(c, where) == wpc' = [wpc EXCEPT ![c] = where]

(* AppState(): df is None, is_anonymized is False; another tab may have     *)
(* loaded a dataset into app_state.df before the button is used.            *)
InitUi ==
    /\ _is_downloading = FALSE
    /\ _is_anonymizing = FALSE
    /\ action_disabled = FALSE
    /\ app_state \in { [df |-> d, is_anonymized |-> FALSE] :
                         d \in {"none", "empty", "loaded"} }
    /\ hpc = [c \in Clicks |-> "ready"]
    /\ wkind = [c \in Clicks |-> "none"]
    /\ wpc = [c \in Clicks |-> "none"]

InitTab ==
    /\ dirExists = TRUE
    /\ modelFiles \in {{}, 1 .. NumMembers}
    /\ tmpFiles = {}
    /\ InitCaller
    /\ InitEngines
    /\ InitThreads
    /\ PipelineUnused
    /\ MatcherUnused
    /\ InitUi

(* on_click=self._handle_action_click: the handler of a click starts *)
Click(c) ==
    /\ hpc[c] = "ready"
    /\ HandlerAt(c, "flags")
    /\ UNCHANGED << _is_downloading, _is_anonymizing, action_disabled,
                    app_state, wkind, wpc >>
    /\ UNCHANGED << dlVars, engVars, thrVars, dfVars, matchVars >>

(* if self._is_downloading or self._is_anonymizing: return *)
Busy(downloading, anonymizing) == downloading \/ anonymizing

CheckFlags(c) ==
    /\ hpc[c] = "flags"
    /\ HandlerAt(c, IF Busy(_is_downloading, _is_anonymizing)
                    THEN "done" ELSE "model")
    /\ UNCHANGED << _is_downloading, _is_anonymizing, action_disabled,
                    app_state, wkind, wpc >>
    /\ UNCHANGED << dlVars, engVars, thrVars, dfVars, matchVars >>

(* if not is_model_available(): ... else: ... *)
CheckModel(c) ==
    /\ hpc[c] = "model"
    /\ HandlerAt(c, IF ~is_model_available THEN "_start_model_download"
                    ELSE "_start_anonymization")
    /\ UNCHANGED << _is_downloading, _is_anonymizing, action_disabled,
                    app_state, wkind, wpc >>
    /\ UNCHANGED << dlVars, engVars, thrVars, dfVars, matchVars >>

(* _start_model_download: the flag, the button, thread.start() *)
StartModelDownload(c) ==
    /\ hpc[c] = "_start_model_download"
    /\ _is_downloading' = TRUE
    /\ action_disabled' = TRUE
    /\ wkind' = [wkind EXCEPT ![c] = "download_thread"]
    /\ WorkerAt(c, "call")
    /\ HandlerAt(c, "done")
    /\ UNCHANGED << _is_anonymizing, app_state >>
    /\ UNCHANGED << dlVars, engVars, thrVars, dfVars, matchVars >>

(* if self.app_state.df is None or self.app_state.df.empty: return *)
NoData(df) == df \in {"none", "empty"}

(* _start_anonymization: the early return, or the flag, the button,         *)
(* thread.start()                                                            *)
StartAnonymization(c) ==
    /\ hpc[c] = "_start_anonymization"
    /\ HandlerAt(c, "done")
    /\ IF NoData(app_state.df)
       THEN UNCHANGED << _is_anonymizing, action_disabled, wkind, wpc >>
       ELSE /\ _is_anonymizing' = TRUE
            /\ action_disabled' = TRUE
            /\ wkind' = [wkind EXCEPT ![c] = "anonymize_thread"]
            /\ WorkerAt(c, "call")
    /\ UNCHANGED << _is_downloading, app_state >>
    /\ UNCHANGED << dlVars, engVars, thrVars, dfVars, matchVars >>

(* success, message = download_model_with_progress(progress_callback):      *)
(* the call returns; on success the model is installed.                     *)
DownloadReturns(c) ==
    /\ wkind[c] = "download_thread" /\ wpc[c] = "call"
    /\ \E success \in BOOLEAN :
        /\ modelFiles' = IF success THEN 1 .. NumMembers ELSE modelFiles
        /\ dirExists' = (dirExists \/ success)
    /\ WorkerAt(c, "returned")
    /\ UNCHANGED << tmpFiles, netUsed, pc, entry, auto_download, hasCb, calls,
                    ret, tmp_path, tmpOpen, download_result, workerAlive,
                    total_size, downloaded, nextMember, probe, httpRequested,
                    streamRead, tmpCreated, extractStarted, stages, fractions,
                    atCall >>
    /\ UNCHANGED << _is_downloading, _is_anonymizing, action_disabled,
                    app_state, hpc, wkind >>
    /\ UNCHANGED << engVars, thrVars, dfVars, matchVars >>

(* self._is_downloading = False; ...; self._action_button.disabled = False *)
DownloadThreadEnds(c) ==
    /\ wkind[c] = "download_thread" /\ wpc[c] = "returned"
    /\ _is_downloading' = FALSE
    /\ action_disabled' = FALSE
    /\ WorkerAt(c, "done")
    /\ UNCHANGED << _is_anonymizing, app_state, hpc, wkind >>
    /\ UNCHANGED << dlVars, engVars, thrVars, dfVars, matchVars >>

(* anonymized_df = anonymize_dataframe(self.app_state.df, ...): the call    *)
(* returns a dataset or raises.                                              *)
AnonymizeReturns(c) ==
    /\ wkind[c] = "anonymize_thread" /\ wpc[c] = "call"
    /\ \E outcome \in {"returned", "raised"} : WorkerAt(c, outcome)
    /\ UNCHANGED << _is_downloading, _is_anonymizing, action_disabled,
                    app_state, hpc, wkind >>
    /\ UNCHANGED << dlVars, engVars, thrVars, dfVars, matchVars >>

(* The two assignments in the other order: the mark is set first. *)
MarkBeforeStore(c) ==
    /\ wkind[c] = "anonymize_thread" /\ wpc[c] = "returned"
    /\ app_state' = [app_state EXCEPT !.is_anonymized = TRUE]
    /\ WorkerAt(c, "stored")
    /\ UNCHANGED << _is_downloading, _is_anonymizing, action_disabled, hpc,
                    wkind >>
    /\ UNCHANGED << dlVars, engVars, thrVars, dfVars, matchVars >>

(* self.app_state.df = anonymized_df *)
StoreResult(c) ==
    /\ wkind[c] = "anonymize_thread" /\ wpc[c] = "returned"
    /\ app_state' = [app_state EXCEPT !.df = "anonymized"]
    /\ WorkerAt(c, "stored")
    /\ UNCHANGED << _is_downloading, _is_anonymizing, action_disabled, hpc,
                    wkind >>
    /\ UNCHANGED << dlVars, engVars, thrVars, dfVars, matchVars >>

(* self.app_state.is_anonymized = True *)
SetAnonymized(c) ==
    /\ wkind[c] = "anonymize_thread" /\ wpc[c] = "stored"
    /\ app_state' = [app_state EXCEPT !.is_anonymized = TRUE]
    /\ WorkerAt(c, "marked")
    /\ UNCHANGED << _is_downloading, _is_anonymizing, action_disabled, hpc,
                    wkind >>
    /\ UNCHANGED << dlVars, engVars, thrVars, dfVars, matchVars >>

(* self._is_anonymizing = False; ...; self._action_button.disabled = False, *)
(* after the result was stored and in the except branch                      *)
AnonymizeThreadEnds(c) ==
    /\ wkind[c] = "anonymize_thread" /\ wpc[c] \in {"marked", "raised"}
    /\ _is_anonymizing' = FALSE
    /\ action_disabled' = FALSE
    /\ WorkerAt(c, IF wpc[c] = "raised" THEN "failed" ELSE "done")
    /\ UNCHANGED << _is_downloading, app_state, hpc, wkind >>
    /\ UNCHANGED << dlVars, engVars, thrVars, dfVars, matchVars >>

NextTab ==
    \/ \E c \in Clicks : Click(c)
    \/ \E c \in Clicks : CheckFlags(c)
    \/ \E c \in Clicks : CheckModel(c)
    \/ \E c \in Clicks : StartModelDownload(c)
    \/ \E c \in Clicks : StartAnonymization(c)
    \/ \E c \in Clicks : DownloadReturns(c)
    \/ \E c \in Clicks : DownloadThreadEnds(c)
    \/ \E c \in Clicks : AnonymizeReturns(c)
    \/ \E c \in Clicks : StoreResult(c)
    \/ \E c \in Clicks : SetAnonymized(c)
    \/ \E c \in Clicks : AnonymizeThreadEnds(c)

SpecTab == InitTab /\ [][NextTab]_vars

(* C4: under every interleaving of threads that call get_analyzer and       *)
(* get_anonymizer, the engine construction of _initialize_engines runs at   *)
(* most once and all callers of a getter receive the same instance.         *)
C4_SingleInitialization ==
    /\ built <= 1
    /\ \A a, b \in handed : a[1] = b[1] => a[2] = b[2]

-----------------------------------------------------------------------------
(* Properties of the lifecycle manager *)

InDownload ==
    entry \in {"download_model_with_progress", "download_model",
               "ensure_model_available"}

HasReturned == pc = "idle" /\ ret.status = "returned"

FsUnchangedSinceCall ==
    /\ dirExists = atCall.dirExists
    /\ modelFiles = atCall.modelFiles
    /\ tmpFiles = atCall.tmpFiles

(* C1: once download_model_with_progress has returned, with success or with *)
(* any failure, the temporary archive file created by that call no longer   *)
(* exists.                                                                   *)
C1_TempFileGoneOnReturn ==
    (HasReturned /\ tmpCreated) => tmp_path \notin tmpFiles

(* C5: within one call of download_model_with_progress, each fraction passed *)
(* to the progress callback is at least the fraction passed before it.      *)
C5_DownloadProgressMonotone ==
    Len(fractions) = 2 => FracLeq(fractions[1], fractions[2])

(* C7: ensure_model_available touches the network only when the marker is   *)
(* absent and auto_download is true; with the marker present it returns     *)
(* (True, message), with the marker absent and auto_download false it       *)
(* returns (False, message), both at once and with no network operation and *)
(* no change to the filesystem, on the first and on every repeated call.    *)
C7_EnsureIsNoOpUnlessDownloading ==
    entry = "ensure_model_available" =>
        /\ atCall.available =>
              /\ HasReturned /\ ret.ok
              /\ ~netUsed /\ FsUnchangedSinceCall
        /\ (~atCall.available /\ ~auto_download) =>
              /\ HasReturned /\ ~ret.ok
              /\ ~netUsed /\ FsUnchangedSinceCall
        /\ netUsed => (~atCall.available /\ auto_download)

(* A second call of ensure_model_available that finds the marker installed. *)
C7_Witness ==
    /\ entry = "ensure_model_available" /\ calls = 2
    /\ atCall.available /\ auto_download
    /\ HasReturned /\ ret.ok

(* C8: when the connectivity probe fails, download_model_with_progress      *)
(* returns (False, message) and has issued no HTTP request, read nothing    *)
(* from a transfer stream, created no temporary file and started no         *)
(* extraction.                                                               *)
C8_ProbeFailureShortCircuits ==
    probe = "failed" =>
        /\ HasReturned /\ ~ret.ok
        /\ ret.msg = "Keine Verbindung zu GitHub moeglich"
        /\ ~httpRequested /\ ~streamRead /\ ~tmpCreated /\ ~extractStarted
        /\ tmpFiles = atCall.tmpFiles /\ modelFiles = atCall.modelFiles

C8_Witness ==
    /\ entry = "download_model_with_progress" /\ hasCb
    /\ probe = "failed" /\ HasReturned

(* C9: if the asset was absent when download_model_with_progress was called *)
(* and the call returned (False, message), is_model_available() is still    *)
(* false: the marker is present only after a call that returned success.    *)
C9_FailedDownloadLeavesAssetAbsent ==
    (InDownload /\ HasReturned /\ ~ret.ok /\ ~atCall.available)
        => ~is_model_available

-----------------------------------------------------------------------------
(* Properties of the anonymization pipeline *)

DfDone == df_pc = "done"

Original == frames[1]

Result == frames[df_ret.ref]

(* What a candidate row holds after a run in which recognition never fails. *)
ExpectedValue(row) ==
    LET v == row.value
        clean == CleanTerms(blacklist)
    IN  IF ~IsCandidate(v) \/ IsNumeric(v) \/ Len(v.text) < MinLength THEN v
        ELSE IF "source_type" \in columns
                /\ row.source_type \in FREETEXT_SOURCE_TYPES
             THEN StrValue(anonymize_content(v.text, clean, fuzzy_matching,
                                             fuzzy_threshold))
        ELSE IF clean # << >>
             THEN StrValue(blacklist_replace(v.text, clean, fuzzy_matching,
                                             fuzzy_threshold))
        ELSE v

(* C2: when recognition raises on freetext rows, the call still returns the *)
(* full dataset without raising, the value of each such row is               *)
(* blacklist_replace of its original value, and every other row holds what   *)
(* it would hold in a run without the error.                                 *)
C2_RowFailureFallsBackToBlacklist ==
    (DfDone /\ nlpErrors # {}) =>
        /\ df_ret.status = "returned"
        /\ Len(Result) = Len(Original)
        /\ \A i \in 1 .. Len(Original) :
              /\ Result[i].source_type = Original[i].source_type
              /\ i \in nlpErrors =>
                    Result[i].value.text =
                        blacklist_replace(Original[i].value.text, blacklist,
                                          fuzzy_matching, fuzzy_threshold)
              /\ i \notin nlpErrors =>
                    Result[i].value = ExpectedValue(Original[i])

(* Recognition fails on exactly one row, whose text holds a blacklisted     *)
(* term, and succeeds on another row.                                        *)
C2_Witness ==
    /\ DfDone /\ df_ret.status = "returned"
    /\ Cardinality(nlpErrors) = 1
    /\ recognized \ nlpErrors # {}
    /\ \E i \in nlpErrors : Result[i].value # Original[i].value
    /\ \E i \in recognized \ nlpErrors : Result[i].value # Original[i].value

(* C3: the dataset returned for a non-empty input is not the caller's       *)
(* object, and no step of the call changes a cell of the caller's dataset.  *)
C3_OriginalNeverMutated ==
    /\ [](df_ret.status = "returned" /\ Original # << >> => df_ret.ref # 1)
    /\ [][Original' = Original]_vars

(* The call has returned a dataset in which a row was rewritten. *)
C3_Witness ==
    /\ DfDone /\ df_ret.status = "returned"
    /\ df_ret.ref # 1
    /\ \E i \in 1 .. Len(Original) : Result[i].value # Original[i].value

(* C6: a call with a progress callback on a non-empty dataset with a value  *)
(* column reports at least one fraction, all reported fractions lie in      *)
(* [0,1], each is at least the one before it, and the last one is 1.0.      *)
C6_PipelineProgressEndsAtOne ==
    (DfDone /\ dfCb /\ Original # << >> /\ "value" \in columns) =>
        /\ reports # << >>
        /\ \A k \in 1 .. Len(reports) :
              /\ FracLeq(Frac(0, 1), reports[k])
              /\ FracLeq(reports[k], Frac(1, 1))
        /\ \A k \in 1 .. Len(reports) - 1 :
              FracLeq(reports[k], reports[k + 1])
        /\ reports # << >> =>
              /\ FracLeq(Frac(1, 1), reports[Len(reports)])
              /\ FracLeq(reports[Len(reports)], Frac(1, 1))

(* C10: with the model asset absent, a call of anonymize_dataframe that has *)
(* run recognition on a freetext row ends by raising to its caller.         *)
C10_MissingModelReachesCaller ==
    (DfDone /\ ~is_model_available /\ ~_initialized /\ recognized # {}) =>
        df_ret.status = "raised"

(* C11: no call of download_model_with_progress, download_model or          *)
(* ensure_model_available ends with an exception leaving the function: every *)
(* finished call has returned a (bool, message) pair.                        *)
C11_LifecycleNeverRaises ==
    (InDownload /\ pc = "idle") => ret.status = "returned"

(* A value that is a number: a Python int or float, or a numpy integer. *)
IsNumber(v) == v.kind \in {"int", "float", "int64"}

(* C12: a candidate row whose value is numeric is returned with the same    *)
(* type and value and is passed neither to the recognizer nor to the        *)
(* matcher, whatever its category and the blacklist.                        *)
C12_NumericRowsUntouched ==
    (DfDone /\ df_ret.status = "returned") =>
        \A i \in 1 .. Len(Original) :
            (IsNumber(Original[i].value) /\ IsCandidate(Original[i].value)) =>
                /\ Result[i].value = Original[i].value
                /\ i \notin recognized
                /\ i \notin matched

(* C13: a row whose value is a text shorter than 5 characters is returned   *)
(* unchanged and is passed neither to the recognizer nor to the matcher, in *)
(* freetext and in structured rows, also when the value is a blacklist term. *)
C13_ShortValuesUntouched ==
    (DfDone /\ df_ret.status = "returned") =>
        \A i \in 1 .. Len(Original) :
            (Original[i].value.kind = "str"
             /\ Len(Original[i].value.text) < MinLength) =>
                /\ Result[i].value = Original[i].value
                /\ i \notin recognized
                /\ i \notin matched

(* A short value that equals a blacklist term literally, in a freetext row  *)
(* and in a structured row of a run that went through the row loop.         *)
C13_Witness ==
    /\ DfDone /\ df_ret.status = "returned" /\ df_ret.ref # 1
    /\ processed = 2
    /\ \A i \in 1 .. 2 :
          /\ Original[i].value = StrValue(ShortText)
          /\ \E k \in 1 .. Len(clean_blacklist) :
                clean_blacklist[k] = Original[i].value.text
    /\ Original[1].source_type \in FREETEXT_SOURCE_TYPES
    /\ Original[2].source_type \notin FREETEXT_SOURCE_TYPES

-----------------------------------------------------------------------------
(* Properties of blacklist_replace *)

(* C14: blacklist_replace applied with the same arguments to its own output *)
(* returns that output unchanged, in exact and in fuzzy mode.                *)
C14_MatcherIdempotent ==
    mpc = "reapplied" => replaced_again = replaced

(* No trimmed non-empty term matches a part of the text: in exact mode no   *)
(* term occurs in it, in fuzzy mode no word of it is equal or similar to a  *)
(* term.                                                                     *)
NoTermMatches ==
    LET clean == CleanTerms(call.terms)
        words == Split(call.txt)
    IN  IF call.fuzzy_matching
        THEN \A i \in 1 .. Len(words) :
                IsDelimiter(words[i])
                \/ ~ShouldReplace(words[i], clean, call.fuzzy_threshold)
        ELSE \A k \in 1 .. Len(clean) : \A i \in 1 .. Len(call.txt) :
                ~MatchesAt(SubSeq(call.txt, i, Len(call.txt)), clean[k])

(* C15: blacklist_replace returns its input text character for character    *)
(* when the term list is empty, holds only blank entries, or holds no term   *)
(* that matches a part of the text, in exact and in fuzzy mode.              *)
C15_NoMatchReturnsInput ==
    (mpc # "start"
     /\ (call.terms = << >> \/ CleanTerms(call.terms) = << >> \/ NoTermMatches))
        => replaced = call.txt

(* Fuzzy mode on a text with words and delimiters and a term that matches   *)
(* none of the words.                                                        *)
C15_Witness ==
    /\ mpc = "applied"
    /\ call.fuzzy_matching
    /\ CleanTerms(call.terms) # << >>
    /\ NoTermMatches
    /\ Len(Split(call.txt)) >= 5
    /\ \E i \in 1 .. Len(call.txt) : IsSpace(call.txt[i])
    /\ \E i \in 1 .. Len(call.txt) : IsPunct(call.txt[i])

(* C16: in exact mode the result of blacklist_replace is the same for every *)
(* order of the term list.                                                   *)
C16_ExactModeOrderIndependent ==
    (mpc # "start" /\ ~call.fuzzy_matching) =>
        \A r \in replaced_permuted : r = replaced

(* Position i of text lies in a case-insensitive occurrence of a term. *)
Covered(text, clean, i) ==
    \E k \in 1 .. Len(clean) : \E j \in 1 .. i :
        /\ j + Len(clean[k]) > i
        /\ MatchesAt(SubSeq(text, j, Len(text)), clean[k])

(* The text with every maximal run of covered positions replaced by one     *)
(* placeholder and every other character kept in place, from position i on. *)
RECURSIVE Redacted(_, _, _)
Redacted(text, clean, i) ==
    IF i > Len(text) THEN << >>
    ELSE IF ~Covered(text, clean, i)
         THEN << text[i] >> \o Redacted(text, clean, i + 1)
    ELSE IF i > 1 /\ Covered(text, clean, i - 1)
         THEN Redacted(text, clean, i + 1)
    ELSE ANONYM \o Redacted(text, clean, i + 1)

(* Adjacent placeholders merged into one. *)
RECURSIVE Merged(_)
Merged(text) ==
    IF text = << >> THEN << >>
    ELSE IF Len(text) >= 2 * Len(ANONYM)
            /\ SubSeq(text, 1, 2 * Len(ANONYM)) = ANONYM \o ANONYM
         THEN Merged(SubSeq(text, Len(ANONYM) + 1, Len(text)))
    ELSE << Head(text) >> \o Merged(Tail(text))

(* C17: in exact mode the result of blacklist_replace is the input text with *)
(* every case-insensitive occurrence of every trimmed non-empty term         *)
(* replaced by <ANONYM> and every other character unchanged and in place     *)
(* (adjacent placeholders counted as one).                                   *)
C17_ExactModeReplacesOccurrences ==
    (mpc # "start" /\ ~call.fuzzy_matching) =>
        Merged(replaced) = Merged(Redacted(call.txt, CleanTerms(call.terms), 1))

-----------------------------------------------------------------------------
(* Properties of the pipeline on datasets that lack a column *)

NoCategoryDone ==
    DfDone /\ df_ret.status = "returned" /\ "source_type" \notin columns

(* C18 as stated: when the dataset has no source_type column, every row of  *)
(* the returned dataset holds the value it had in the input, whatever the   *)
(* blacklist.                                                                *)
C18_NoCategoryPassesThrough ==
    NoCategoryDone =>
        \A i \in 1 .. Len(Original) : Result[i].value = Original[i].value

(* C18 as amended: when the dataset has no source_type column, no row is    *)
(* passed to the recognizer and a row is changed only into blacklist_replace *)
(* of its value; with an empty or all-blank blacklist every row is returned  *)
(* as it was.                                                                *)
C18_NoCategoryBlacklistOnly ==
    NoCategoryDone =>
        /\ recognized = {}
        /\ Len(Result) = Len(Original)
        /\ \A i \in 1 .. Len(Original) :
              \/ Result[i].value = Original[i].value
              \/ /\ CleanTerms(blacklist) # << >>
                 /\ Result[i].value =
                       StrValue(blacklist_replace(Original[i].value.text,
                                                  blacklist, fuzzy_matching,
                                                  fuzzy_threshold))

(* A dataset without source_type in which the blacklist rewrote a row. *)
C18_Witness ==
    /\ NoCategoryDone
    /\ matched # {}
    /\ \E i \in 1 .. Len(Original) :
          /\ Original[i].value.kind = "str"
          /\ Result[i].value # Original[i].value

(* C19: when the dataset is empty or has no value column, the call returns  *)
(* without raising a dataset with exactly the content of its input, and no   *)
(* row is passed to the recognizer or to the matcher.                        *)
C19_ShapeProblemsReturnInput ==
    (DfDone /\ (Original = << >> \/ "value" \notin columns)) =>
        /\ df_ret.status = "returned"
        /\ Result = Original
        /\ recognized = {} /\ matched = {}
        /\ processed = 0

(* A dataset without a value column whose rows are of a freetext category,  *)
(* with a blacklist that holds a term.                                       *)
C19_Witness ==
    /\ DfDone /\ df_ret.status = "returned"
    /\ "value" \notin columns
    /\ Len(Original) = 2
    /\ \A i \in 1 .. 2 : Original[i].source_type \in FREETEXT_SOURCE_TYPES
    /\ CleanTerms(blacklist) # << >>
    /\ df_ret.ref # 1

-----------------------------------------------------------------------------
(* Termination of the download *)

(* C20: every call of download_model_with_progress that has been entered    *)
(* comes to its end, whatever the network does: the call is not in progress *)
(* forever.                                                                  *)
C20_DownloadEventuallyReturns ==
    (pc # "idle") ~> (pc = "idle")

(* C21: when the join on the connect worker ends with the worker still      *)
(* running, the call returns failure with the connection-timeout message;   *)
(* when the worker ended with an error, the call returns failure with that  *)
(* error in its message; in both cases no byte of the response was read.    *)
C21_ConnectFailureReported ==
    [][(pc = "joined" /\ ConnectFailed(workerAlive, download_result)) =>
          /\ ret' = Returned(FALSE,
                       IF workerAlive
                       THEN "Netzwerkfehler: Verbindungs-Timeout"
                       ELSE "Netzwerkfehler: URLError")
          /\ ~streamRead']_vars


(* C22: a call that ends while opening or unpacking the archive returns     *)
(* failure with the unpack message, which is not the message of a network   *)
(* failure or of a filesystem failure.                                      *)
C22_UnpackErrorsGetArchiveMessage ==
    [][(pc \in {"tar_open", "extract"} /\ pc' = "idle") =>
          ret' = Returned(FALSE, "Fehler beim Entpacken")]_vars


(* C23: when the stream of a response with a declared size ends before that *)
(* size was received, the call returns failure with the incomplete-transfer *)
(* message; it has not opened the archive, has reported neither the unpack  *)
(* nor the done progress, and the model directory is as it was at the call. *)
C23_ShortStreamIsIncompleteTransfer ==
    /\ [][(pc = "check" /\ total_size > 0 /\ downloaded < total_size) =>
             ret' = Returned(FALSE, "Download unvollstaendig")]_vars
    /\ []((total_size > 0 /\ downloaded < total_size
           /\ (pc = "check" \/ (pc = "idle" /\ InDownload /\ streamRead))) =>
             /\ ~extractStarted
             /\ "unpack" \notin stages /\ "done" \notin stages
             /\ modelFiles = atCall.modelFiles)

(* A call with a progress callback has received a part of the declared size *)
(* and returned the incomplete-transfer failure.                            *)
C23_Witness ==
    /\ InDownload /\ pc = "idle" /\ hasCb
    /\ ret = Returned(FALSE, "Download unvollstaendig")
    /\ 0 < downloaded /\ downloaded < total_size


(* C24: when the target directory cannot be created, the call returns       *)
(* (False, message) at once: no connectivity probe was run, no HTTP request *)
(* made, no temporary file created and no progress callback invoked.        *)
C24_MakedirsFailureIsImmediate ==
    /\ [][(pc = "makedirs" /\ ~dirExists') =>
             /\ pc' = "idle"
             /\ ret' = Returned(FALSE, "Konnte Verzeichnis nicht erstellen")]_vars
    /\ []((InDownload /\ pc = "idle"
           /\ ret = Returned(FALSE, "Konnte Verzeichnis nicht erstellen")) =>
             /\ probe = "none" /\ ~httpRequested /\ ~streamRead /\ ~netUsed
             /\ ~tmpCreated /\ tmpFiles = atCall.tmpFiles
             /\ stages = {} /\ fractions = << >>)

(* A call with a progress callback has returned the directory failure. *)
C24_Witness ==
    /\ entry = "download_model_with_progress" /\ hasCb /\ pc = "idle"
    /\ ret = Returned(FALSE, "Konnte Verzeichnis nicht erstellen")
    /\ ~dirExists


-----------------------------------------------------------------------------
(* Progress and routing in anonymize_dataframe *)

(* C25: with a progress callback, the row loop is entered with the report   *)
(* 0.0, every row that brings the processed count to a multiple of 100 -    *)
(* a skipped row too - is followed by the report processed / candidates,    *)
(* and a call that returns after the loop has 1.0 as its last report.       *)
C25_ProgressEveryHundredRows ==
    /\ [][(dfCb /\ df_pc = "start" /\ df_pc' = "loop") =>
             reports' = << Frac(0, 1) >>]_vars
    /\ [][(dfCb /\ df_pc = "loop" /\ processed' # processed
           /\ processed' % ProgressEvery = 0) =>
             reports' = Append(reports,
                               Frac(processed', Len(rows_to_process)))]_vars
    /\ [][(dfCb /\ df_pc = "loop" /\ df_pc' = "done"
           /\ df_ret'.status = "returned") =>
             reports' = Append(reports, Frac(1, 1))]_vars


(* C26: the recognizer is run only on candidate rows whose category is in   *)
(* FREETEXT_SOURCE_TYPES, and the value of such a row is the matcher's      *)
(* result on the recognizer's output; a row of another category that the    *)
(* loop does not skip is never given to the recognizer: with blacklist      *)
(* terms its value is the matcher's result on the original text, and with   *)
(* an empty blacklist it is returned unchanged.                              *)
C26_RecognizerOnlyOnFreetextRows ==
    (DfDone /\ df_ret.status = "returned" /\ df_ret.ref # 1) =>
        \A i \in 1 .. Len(Original) :
            LET v == Original[i].value
                freetext == /\ "source_type" \in columns
                            /\ Original[i].source_type \in FREETEXT_SOURCE_TYPES
            IN  /\ i \in recognized => (freetext /\ IsCandidate(v))
                /\ i \in recognized \ nlpErrors =>
                      Result[i].value =
                          StrValue(IF clean_blacklist # << >>
                                   THEN blacklist_replace(
                                            RedactPersons(v.text),
                                            clean_blacklist, fuzzy_matching,
                                            fuzzy_threshold)
                                   ELSE RedactPersons(v.text))
                /\ (~freetext /\ IsCandidate(v) /\ ~IsNumeric(v)
                    /\ ~IsShort(v.text) /\ "value" \in columns
                    /\ rows_to_process # << >>) =>
                      /\ i \notin recognized
                      /\ IF clean_blacklist # << >>
                         THEN /\ i \in matched
                              /\ Result[i].value =
                                    StrValue(blacklist_replace(
                                        v.text, clean_blacklist,
                                        fuzzy_matching, fuzzy_threshold))
                         ELSE /\ i \notin matched
                              /\ Result[i].value = v

(* A freetext row rewritten by the recognizer and a structured row rewritten *)
(* by the matcher in the same call.                                          *)
C26_Witness ==
    /\ DfDone /\ df_ret.status = "returned" /\ df_ret.ref # 1
    /\ clean_blacklist # << >>
    /\ \E i \in recognized \ nlpErrors : Result[i].value # Original[i].value
    /\ \E j \in matched \ recognized : Result[j].value # Original[j].value


-----------------------------------------------------------------------------
(* The fuzzy mode of blacklist_replace *)

(* C27: in fuzzy mode the result has the tokens and delimiters of the text  *)
(* in their order; a token that is not a delimiter is replaced by one       *)
(* <ANONYM> exactly when a trimmed term equals it without regard to case,   *)
(* or a term's length differs from its length by at most 2 and the          *)
(* similarity of the lower-cased pair reaches the threshold; delimiter      *)
(* tokens are kept as they are.                                              *)
C27_FuzzyModeTokenRule ==
    (mpc # "start" /\ call.fuzzy_matching /\ call.txt # << >>
     /\ CleanTerms(call.terms) # << >>) =>
        LET tokens == Split(call.txt)
            out == Split(replaced)
            clean == CleanTerms(call.terms)
            hit(token) ==
                \E k \in 1 .. Len(clean) :
                    \/ Lower(token) = Lower(clean[k])
                    \/ /\ Len(token) - Len(clean[k]) \in -2 .. 2
                       /\ RatioAtLeast(Lower(token), Lower(clean[k]),
                                       call.fuzzy_threshold)
        IN  /\ Len(out) = Len(tokens)
            /\ \A i \in 1 .. Len(tokens) :
                  out[i] = IF ~IsDelimiter(tokens[i]) /\ hit(tokens[i])
                           THEN ANONYM ELSE tokens[i]

(* The example text with a misspelt term: one word is replaced through its  *)
(* similarity, the other words and the delimiters are kept.                  *)
C27_Witness ==
    /\ mpc = "applied" /\ call.fuzzy_matching
    /\ call.txt = ExampleText
    /\ call.terms = << ExampleTypo >>
    /\ replaced # call.txt
    /\ Len(Split(replaced)) = Len(Split(call.txt))


-----------------------------------------------------------------------------
(* Properties of the action button of the anonymization tab *)

(* The worker threads that are inside download_model_with_progress or       *)
(* anonymize_dataframe.                                                      *)
InFlight(kind) == {c \in Clicks : wkind[c] = kind /\ wpc[c] = "call"}

(* C28: at most one call of download_model_with_progress and at most one    *)
(* call of anonymize_dataframe started by the action handler are running at *)
(* any time, and never one of each; a click whose handler finds one of the  *)
(* two flags set starts no worker thread.                                    *)
C28_ActionHandlerSingleFlight ==
    /\ [](Cardinality(InFlight("download_thread")
                      \cup InFlight("anonymize_thread")) <= 1)
    /\ [][\A c \in Clicks :
            (hpc[c] = "flags" /\ (_is_downloading \/ _is_anonymizing)) =>
                (wkind'[c] = "none" /\ hpc'[c] \in {"flags", "done"})]_vars


-----------------------------------------------------------------------------
(* The recognizer singleton under every interleaving *)

(* C29: get_analyzer and get_anonymizer never hand out an unset engine: a   *)
(* getter call ends with an instance or with an exception, the flag         *)
(* _initialized is true only when both engines are assigned, and a step in  *)
(* which an initialization fails leaves the flag as it was.                 *)
C29_GettersNeverReturnNone ==
    /\ [](\A h \in handed : h[2] # 0)
    /\ [](_initialized => (_analyzer # 0 /\ _anonymizer # 0))
    /\ [][(raisedTo' # raisedTo /\ raisedTo \subseteq raisedTo') =>
             (_initialized' = _initialized
              /\ (built = 0 => ~_initialized'))]_vars

(* The getter call of one thread has raised, and the call of another thread *)
(* has run the initialization and handed out an engine.                      *)
C29_Witness ==
    /\ raisedTo # {}
    /\ _initialized /\ built >= 1
    /\ handed # {}

-----------------------------------------------------------------------------
(* The state of the application after an anonymization *)

=============================================================================
